---- MODULE Spec2Model ----
(***************************************************************************)
(* Bulk CV orchestrators of the hr_recruitment_extract_openai and          *)
(* hr_recruitment_extract_gemini addons (models/hr_job.py of each).        *)
(*                                                                         *)
(* One job posting (hr.job row), its attachments (ir.attachment), the      *)
(* candidate profiles created from them (hr.applicant), the queue.job      *)
(* records created by with_delay() and the background run of each of       *)
(* them.  Exactly one of the two addons is installed (variable addon);     *)
(* both extend hr.job with the same two attachment relations.              *)
(*                                                                         *)
(* Granularity.  The OpenAI run opens one cursor per step (work_cr,        *)
(* stats_cr, notify_cr, final_cr) and commits each: every committed        *)
(* transaction is one action, and a transaction that waits on the row lock *)
(* of the job posting or on the external service is split at the wait.     *)
(* A user request (button) is one transaction and one action; an action    *)
(* that raises UserError is rolled back by the framework and changes only  *)
(* the response returned to the user.  The Gemini run works in the job's   *)
(* own cursor with one savepoint per document: a document is one action,   *)
(* and what the run writes becomes visible to the other transactions when  *)
(* the job runner commits that cursor.  Cursors are REPEATABLE READ: the    *)
(* first UPDATE of the hr_job row takes its row lock until the cursor ends, *)
(* and an UPDATE of a row that another transaction changed since the        *)
(* cursor's snapshot raises a serialization failure.                       *)
(*                                                                         *)
(* Fields that the run only reads and that a user may edit at any time     *)
(* (the company's API key and model, run_ai_match_on_bulk, the requirement *)
(* statements) are inputs of the action that reads them.                   *)
(***************************************************************************)
EXTENDS Integers, Sequences, FiniteSets, TLC

\* ---------------------------------------------------------------- bounds
MaxAtt == 2          \* attachments ever uploaded to the job posting
MaxRuns == 3         \* start requests ever accepted (queue.job records)
MaxLen == 6          \* lexemes of a response text of the service
MaxJobs == 2         \* extraction requests ever accepted for the applicant
MaxItems == 2        \* items of a skills list
MaxPasses == 2       \* extracted data sets written (_process_extracted_cv_data)
MaxJdJobs == 2       \* requirement extractions ever accepted
MaxJdAtt == 2        \* job description files ever uploaded
MaxReqs == 2         \* requirement statements of the posting that is matched

Atts == 1..MaxAtt
Runs == 1..MaxRuns
Jobs == 1..MaxJobs
JdJobs == 1..MaxJdJobs

VARIABLES
  addon,                        \* "openai" | "gemini": the installed addon
  \* ---- hr.job row
  cv_attachment_ids,
  processed_cv_attachment_ids,
  processed_cv_count,
  failed_cv_count,
  total_cv_count,
  bulk_processing_complete,
  bulk_processing_failed,
  bulk_queue_job_uuid,          \* 0 models False
  processing_in_progress,       \* Gemini addon's flags
  processing_complete,
  processing_failed,
  \* ---- ir.attachment
  attExists,                    \* records not unlinked
  attEmpty,                     \* records whose datas is empty
  nextAtt,                      \* next id of the sequence
  \* ---- hr.applicant: number of committed profiles per source document
  profiles,
  \* ---- queue.job
  qstate,                       \* per uuid: "none" "pending" "started" "done" "failed"
  qargs,                        \* per uuid: attachment_ids_to_process
  nextRun,                      \* next uuid
  \* ---- background runs
  th,                           \* per uuid: position and locals of the run
  rowLock,                      \* run holding FOR UPDATE on the hr_job row, 0 if none
  response,                     \* what the step just taken returned to the
                                \* user: "none" after a background step
  \* ---- _parse_openai_response / _parse_gemini_response
  response_text,                \* the text handed to the normalizer
  parsed,                       \* what the normalizer returned or raised
  \* ---- one hr.applicant row and its company (committed values)
  extract_state,                \* openai_extract_state / gemini_extract_state
  extract_status,               \* openai_extract_status / gemini_extract_status
  simple_fields,                \* partner_name, email_from, ...: <<>> or the
                                \* extracted value they were written from
  message_main_attachment_id,   \* "none" | "cv" | "empty" (no datas)
  cv_extract_mode,              \* "manual_send" | "no_send"
  \* ---- queue.job records of _run_*_extraction_job
  ajob,                         \* per job: position, locals, and the
                                \* applicant as the job's cursor sees it
  nextJob,
  \* ---- the skill taxonomy, as the transaction at work sees it
  hr_skill_type,                \* records [id, name, skill_level_ids]
  hr_skill_level,               \* records [id, name, level_progress]
  hr_skill,                     \* records [id, name, skill_type_id]
  hr_applicant_skill,           \* links, in the order of their creation
  sk,                           \* _process_extracted_cv_data at work:
                                \* position and locals
  \* ---- job description of the job posting (committed values)
  job_description_attachment_ids,
  jd_processed_attachment_ids,
  jd_extract_state,
  jd_extract_status,
  jd_queue_job_uuid,            \* 0 models False
  hr_job_requirement,           \* requirement_statement_ids of the posting
  hr_job_requirement_tag,       \* records [id, name]
  jdAtts,                       \* ir.attachment records not unlinked
  nextJdAtt,
  jj,                           \* queue.job records of
                                \* _run_jd_extraction_job: state, position,
                                \* locals and the cursor's view
  nextJd,
  \* ---- matching of one applicant against the posting's requirements
  hr_applicant_match_statement, \* records [requirement_id, match_fit,
                                \* match_score], in the order they are read
  match_percent                 \* the aggregate, a fraction <<n, d>>

jobVars == <<cv_attachment_ids, processed_cv_attachment_ids,
             processed_cv_count, failed_cv_count, total_cv_count,
             bulk_processing_complete, bulk_processing_failed,
             bulk_queue_job_uuid, processing_in_progress,
             processing_complete, processing_failed>>
parseVars == <<response_text, parsed>>
applicantVars == <<extract_state, extract_status, simple_fields,
                   message_main_attachment_id, cv_extract_mode, ajob,
                   nextJob>>
taxVars == <<hr_skill_type, hr_skill_level, hr_skill, hr_applicant_skill,
             sk>>
\* what neither the normalizer nor the single-applicant job changes
jdVars == <<job_description_attachment_ids, jd_processed_attachment_ids,
            jd_extract_state, jd_extract_status, jd_queue_job_uuid,
            hr_job_requirement, hr_job_requirement_tag, jdAtts,
            nextJdAtt, jj, nextJd>>
matchVars == <<hr_applicant_match_statement, match_percent>>
restVars == <<taxVars, jdVars, matchVars>>
\* what no step of the bulk orchestrators changes
confVars == <<addon, parseVars, applicantVars, restVars>>
attVars == <<attExists, attEmpty, nextAtt>>
queueVars == <<qstate, qargs, nextRun>>
vars == <<confVars, jobVars, attVars, profiles, queueVars, th, rowLock,
          response>>

\* ------------------------------------------------------------- helpers
Max(S) == CHOOSE x \in S : \A y \in S : y <= x

\* ir.attachment has _order = 'id desc': a recordset's ids come highest first
RECURSIVE IdsOf(_)
IdsOf(S) == IF S = {} THEN <<>> ELSE <<Max(S)>> \o IdsOf(S \ {Max(S)})

Range(s) == {s[i] : i \in 1..Len(s)}

\* str.strip() on a string given as a sequence of characters
RECURSIVE LStrip(_)
LStrip(s) == IF s # <<>> /\ Head(s) = " " THEN LStrip(Tail(s)) ELSE s
RECURSIVE RStrip(_)
RStrip(s) ==
  IF s # <<>> /\ s[Len(s)] = " " THEN RStrip(SubSeq(s, 1, Len(s) - 1)) ELSE s
Strip(s) == RStrip(LStrip(s))

\* `x or default` on strings: False and '' are both falsy
OrElse(s, d) == IF s = <<>> THEN d ELSE s

DefaultOpenAIModel == <<"g", "p", "t">>
DefaultGeminiModel == <<"g", "e", "m">>

\* res.company configurations tried: complete, no key, blank key,
\* no model (the default applies), blank model
Companies ==
  { [api_key |-> <<"k">>, model |-> <<"m">>],
    [api_key |-> <<>>, model |-> <<"m">>],
    [api_key |-> <<" ">>, model |-> <<"m">>],
    [api_key |-> <<"k">>, model |-> <<>>],
    [api_key |-> <<"k">>, model |-> <<" ">>] }

\* _openai_get_client: "ok" or the UserError it raises
openai_get_client(c) ==
  LET api_key == Strip(OrElse(c.api_key, <<>>))
      model_name == Strip(OrElse(c.model, DefaultOpenAIModel))
  IN IF api_key = <<>> THEN "no_api_key"
     ELSE IF model_name = <<>> THEN "no_model"
     ELSE "ok"

\* _gemini_get_config: "ok" or the UserError it raises
gemini_get_config(c) ==
  LET api_key == Strip(OrElse(c.api_key, <<>>))
      model_name == Strip(OrElse(c.model, DefaultGeminiModel))
  IN IF api_key = <<>> THEN "no_api_key"
     ELSE IF model_name = <<>> THEN "no_model"
     ELSE "ok"

\* _compute_bulk_job_state / _compute_bulk_processing_in_progress
bulk_job_state ==
  IF bulk_queue_job_uuid # 0 THEN qstate[bulk_queue_job_uuid] ELSE "none"
bulk_processing_in_progress ==
  bulk_job_state \in {"pending", "enqueued", "started"}

\* locals of a run that has not begun; `attempted`, `sent` and `stale` are
\* not variables of the code: the documents whose processing was begun, the
\* notifications delivered to the user, in order, and whether the hr_job row
\* was changed by another transaction since the snapshot of the job's cursor
NoLocals ==
  [pc |-> "idle", idx |-> 0, cached |-> {}, error_msg |-> "",
   applicant_id |-> 0, successful_ids |-> <<>>, errors |-> <<>>,
   fail_count |-> 0, success_count |-> 0, critical_error |-> FALSE,
   should_run_match |-> FALSE, match_fail |-> 0, stale |-> FALSE,
   attempted |-> <<>>, sent |-> <<>>]

Resp(tag, n) == [tag |-> tag, count |-> n]

\* ---------------------------------------------------------------- Init
\* no text was handed to the normalizer
NotParsed == [kind |-> "none", value |-> <<>>]
ParseIdle == response_text = <<>> /\ parsed = NotParsed

\* the job posting as it is created: nothing attached, nothing run
BulkInit ==
  /\ cv_attachment_ids = {}
  /\ processed_cv_attachment_ids = {}
  /\ processed_cv_count = 0
  /\ failed_cv_count = 0
  /\ total_cv_count = 0
  /\ bulk_processing_complete = FALSE
  /\ bulk_processing_failed = FALSE
  /\ bulk_queue_job_uuid = 0
  /\ processing_in_progress = FALSE
  /\ processing_complete = FALSE
  /\ processing_failed = FALSE
  /\ attExists = {}
  /\ attEmpty = {}
  /\ nextAtt = 1
  /\ profiles = [a \in Atts |-> 0]
  /\ qstate = [r \in Runs |-> "none"]
  /\ qargs = [r \in Runs |-> <<>>]
  /\ nextRun = 1
  /\ th = [r \in Runs |-> NoLocals]
  /\ rowLock = 0
  /\ response = Resp("none", 0)

\* an exception: its message and, for the normalizer's, the raw text
Exc(msg, raw) == [msg |-> msg, raw |-> raw]
NoExc == Exc("", <<>>)

\* locals of a job that does not exist; state, status and fields are the
\* applicant's fields in the job's environment, sent the notifications
\* delivered, stale whether the row changed since the cursor's snapshot
NoJob ==
  [pc |-> "none", state |-> "", status |-> "", fields |-> <<>>,
   response_text |-> <<>>, e |-> NoExc, success |-> FALSE,
   error_message |-> NoExc, sent |-> <<>>, stale |-> FALSE]

\* the applicant as it is created (field defaults; res.company default of
\* the mode), no extraction requested
ApplicantInit ==
  /\ extract_state = "no_extract"
  /\ extract_status = ""
  /\ simple_fields = <<>>
  /\ message_main_attachment_id = "none"
  /\ cv_extract_mode = "manual_send"
  /\ ajob = [j \in Jobs |-> NoJob]
  /\ nextJob = 1

\* what one skill item resolved to: the ids of its type, level and skill,
\* how the level was found, whether the level was registered under the type
\* and whether a link was created
NoResult ==
  [item |-> [type |-> "", skill |-> "", level |-> <<>>], type_id |-> 0, level_id |-> 0, how |-> "", skill_id |-> 0,
   registered |-> FALSE, linked |-> FALSE]

\* the three tables of the taxonomy and the links
Tables(t, l, s, a) == [types |-> t, levels |-> l, skills |-> s, links |-> a]

\* locals of _process_extracted_cv_data and _process_skills when no data is
\* being written: the caches map a lower-cased name to the id of a record,
\* default_level is 0 for None, n counts the items taken from the list,
\* savepoint holds the tables as they were when step 2 began
NoPass ==
  [pc |-> "idle", caller |-> "", applicant_id |-> 0, passes |-> 0,
   type_cache |-> {}, level_cache |-> {}, skill_cache |-> {},
   default_level |-> 0, default_calls |-> 0, n |-> 0,
   savepoint |-> Tables({}, {}, {}, <<>>), registrations |-> <<>>,
   last |-> NoResult, skill_status_message |-> "", doc_processed |-> FALSE]

\* no taxonomy and no data being written
TaxIdle ==
  /\ hr_skill_type = {}
  /\ hr_skill_level = {}
  /\ hr_skill = {}
  /\ hr_applicant_skill = <<>>
  /\ sk = NoPass

\* what the cursor of a requirement extraction sees of the posting
JdView(state, status, uuid, processed, statements, tags, atts) ==
  [state |-> state, status |-> status, uuid |-> uuid,
   processed |-> processed, statements |-> statements, tags |-> tags,
   atts |-> atts]

\* a queue.job record that does not exist: q is its state, data the
\* requirements the service returned, locked whether its cursor holds the
\* row of the posting, stale whether the row changed since its snapshot
NoJdJob ==
  [q |-> "none", pc |-> "none", attachment_id |-> 0,
   view |-> JdView("", "", 0, {}, <<>>, {}, {}), data |-> <<>>,
   e |-> "", success |-> FALSE, error_message |-> "", sent |-> <<>>,
   locked |-> FALSE, stale |-> FALSE, unlinked |-> <<>>]

\* the posting as it is created: no file, no requirement, no tag
JdIdle ==
  /\ job_description_attachment_ids = {}
  /\ jd_processed_attachment_ids = {}
  /\ jd_extract_state = "no_extract"
  /\ jd_extract_status = ""
  /\ jd_queue_job_uuid = 0
  /\ hr_job_requirement = <<>>
  /\ hr_job_requirement_tag = {}
  /\ jdAtts = {}
  /\ nextJdAtt = 1
  /\ jj = [j \in JdJobs |-> NoJdJob]
  /\ nextJd = 1

\* an applicant that was never matched
MatchIdle ==
  /\ hr_applicant_match_statement = <<>>
  /\ match_percent = <<0, 1>>

Init ==
  /\ addon \in {"openai", "gemini"}
  /\ BulkInit
  /\ ParseIdle
  /\ ApplicantInit
  /\ TaxIdle
  /\ JdIdle
  /\ MatchIdle


\* ------------------------------------------------------- user requests
\* The locals of the runs after transaction `by` committed a write of the
\* hr_job row: the cursor of a Gemini run that has begun keeps its snapshot,
\* so its next UPDATE of the row (self.write) will fail.
Staled(by) ==
  [r \in Runs |->
     IF addon = "gemini" /\ r # by /\ th[r].pc \in {"loop", "finally"}
     THEN [th[r] EXCEPT !.stale = TRUE] ELSE th[r]]

\* The user attaches one more CV file to the job posting (many2many
\* widget of the form): a new ir.attachment linked to cv_attachment_ids.
UploadCv(empty) ==
  /\ nextAtt <= MaxAtt
  /\ rowLock = 0
  /\ attExists' = attExists \cup {nextAtt}
  /\ attEmpty' = IF empty THEN attEmpty \cup {nextAtt} ELSE attEmpty
  /\ nextAtt' = nextAtt + 1
  /\ cv_attachment_ids' = cv_attachment_ids \cup {nextAtt}
  /\ response' = Resp("uploaded", 0)
  /\ th' = Staled(0)
  /\ UNCHANGED <<confVars, processed_cv_attachment_ids, processed_cv_count,
                 failed_cv_count, total_cv_count, bulk_processing_complete,
                 bulk_processing_failed, bulk_queue_job_uuid,
                 processing_in_progress, processing_complete,
                 processing_failed, profiles, queueVars, rowLock>>

\* variant: the start request that forgets the already-processed set
attachments_to_process_all == cv_attachment_ids

\* attachments_to_process of action_process_cvs (both addons)
attachments_to_process == cv_attachment_ids \ processed_cv_attachment_ids

\* the request raised UserError: the transaction is rolled back
Rejected(tag) ==
  /\ response' = Resp(tag, 0)
  /\ UNCHANGED <<confVars, jobVars, attVars, profiles, queueVars, th, rowLock>>

\* with_delay(): a queue.job record in state pending, holding the arguments
Enqueue(ids) ==
  /\ nextRun <= MaxRuns
  /\ qstate' = [qstate EXCEPT ![nextRun] = "pending"]
  /\ qargs' = [qargs EXCEPT ![nextRun] = ids]
  /\ nextRun' = nextRun + 1

\* variant: the start request that waits for the row (FOR UPDATE without
\* NOWAIT) instead of failing at once
OpenAIActionProcessCvsWaiting ==
  /\ addon = "openai"
  /\ rowLock = 0
  /\ IF bulk_processing_in_progress THEN Rejected("err_in_progress")
     ELSE IF cv_attachment_ids = {} THEN Rejected("err_no_attachments")
     ELSE IF attachments_to_process = {} THEN Rejected("err_all_processed")
     ELSE
       /\ Enqueue(IdsOf(attachments_to_process))
       /\ processed_cv_attachment_ids' = {}
       /\ processed_cv_count' = 0
       /\ failed_cv_count' = 0
       /\ total_cv_count' = Cardinality(attachments_to_process)
       /\ bulk_processing_complete' = FALSE
       /\ bulk_processing_failed' = FALSE
       /\ bulk_queue_job_uuid' = nextRun
       /\ response' = Resp("started", Cardinality(attachments_to_process))
       /\ UNCHANGED <<confVars, cv_attachment_ids, processing_in_progress,
                      processing_complete, processing_failed, attVars,
                      profiles, th, rowLock>>

\* hr_recruitment_extract_openai: HrJob.action_process_cvs
OpenAIActionProcessCvs ==
  /\ addon = "openai"
  /\ IF rowLock # 0 THEN Rejected("err_locked")
     ELSE IF bulk_processing_in_progress THEN Rejected("err_in_progress")
     ELSE IF cv_attachment_ids = {} THEN Rejected("err_no_attachments")
     ELSE IF attachments_to_process = {} THEN Rejected("err_all_processed")
     ELSE
       /\ Enqueue(IdsOf(attachments_to_process))
       /\ processed_cv_attachment_ids' = {}
       /\ processed_cv_count' = 0
       /\ failed_cv_count' = 0
       /\ total_cv_count' = Cardinality(attachments_to_process)
       /\ bulk_processing_complete' = FALSE
       /\ bulk_processing_failed' = FALSE
       /\ bulk_queue_job_uuid' = nextRun
       /\ response' = Resp("started", Cardinality(attachments_to_process))
       /\ UNCHANGED <<confVars, cv_attachment_ids, processing_in_progress,
                      processing_complete, processing_failed, attVars,
                      profiles, th, rowLock>>

\* variant: the delete request that counts the attachments after it has
\* removed them
OpenAIActionDeleteCvAttachmentsCountAfter ==
  /\ addon = "openai"
  /\ rowLock = 0
  /\ LET to_unlink == cv_attachment_ids \cup processed_cv_attachment_ids
     IN attExists' = attExists \ to_unlink
  /\ cv_attachment_ids' = {}
  /\ response' = Resp("deleted", Cardinality(cv_attachment_ids'))
  /\ processed_cv_attachment_ids' = {}
  /\ bulk_processing_complete' = FALSE
  /\ bulk_processing_failed' = FALSE
  /\ bulk_queue_job_uuid' = 0
  /\ processed_cv_count' = 0
  /\ failed_cv_count' = 0
  /\ total_cv_count' = 0
  /\ UNCHANGED <<confVars, processing_in_progress, processing_complete,
                 processing_failed, attEmpty, nextAtt, profiles, queueVars,
                 th, rowLock>>

\* hr_recruitment_extract_openai: HrJob.action_delete_cv_attachments
OpenAIActionDeleteCvAttachments ==
  /\ addon = "openai"
  /\ rowLock = 0
  /\ LET attachment_count == Cardinality(cv_attachment_ids)
         to_unlink == cv_attachment_ids \cup processed_cv_attachment_ids
     IN /\ attExists' = attExists \ to_unlink
        /\ response' = Resp("deleted", attachment_count)
  /\ cv_attachment_ids' = {}
  /\ processed_cv_attachment_ids' = {}
  /\ bulk_processing_complete' = FALSE
  /\ bulk_processing_failed' = FALSE
  /\ bulk_queue_job_uuid' = 0
  /\ processed_cv_count' = 0
  /\ failed_cv_count' = 0
  /\ total_cv_count' = 0
  /\ UNCHANGED <<confVars, processing_in_progress, processing_complete,
                 processing_failed, attEmpty, nextAtt, profiles, queueVars,
                 th, rowLock>>

\* variant: the start request that also refuses a job posting whose
\* previous run is complete, until its attachments are deleted
GeminiActionProcessCvsOnce ==
  /\ addon = "gemini"
  /\ rowLock = 0
  /\ IF processing_in_progress THEN Rejected("err_in_progress")
     ELSE IF processing_complete THEN Rejected("err_all_processed")
     ELSE IF cv_attachment_ids = {} THEN Rejected("err_no_attachments")
     ELSE IF attachments_to_process = {} THEN Rejected("err_all_processed")
     ELSE
       /\ processing_in_progress' = TRUE
       /\ processing_complete' = FALSE
       /\ processing_failed' = FALSE
       /\ Enqueue(IdsOf(attachments_to_process))
       /\ response' = Resp("started", Cardinality(attachments_to_process))
       /\ th' = Staled(0)
       /\ UNCHANGED <<confVars, cv_attachment_ids,
                      processed_cv_attachment_ids, processed_cv_count,
                      failed_cv_count, total_cv_count,
                      bulk_processing_complete, bulk_processing_failed,
                      bulk_queue_job_uuid, attVars, profiles, rowLock>>

\* hr_recruitment_extract_gemini: HrJob.action_process_cvs; its
\* SELECT ... FOR UPDATE waits for the row
GeminiActionProcessCvs ==
  /\ addon = "gemini"
  /\ rowLock = 0
  /\ IF processing_in_progress THEN Rejected("err_in_progress")
     ELSE IF cv_attachment_ids = {} THEN Rejected("err_no_attachments")
     ELSE IF attachments_to_process = {} THEN Rejected("err_all_processed")
     ELSE
       /\ processing_in_progress' = TRUE
       /\ processing_complete' = FALSE
       /\ processing_failed' = FALSE
       /\ Enqueue(IdsOf(attachments_to_process))
       /\ response' = Resp("started", Cardinality(attachments_to_process))
       /\ th' = Staled(0)
       /\ UNCHANGED <<confVars, cv_attachment_ids,
                      processed_cv_attachment_ids, processed_cv_count,
                      failed_cv_count, total_cv_count,
                      bulk_processing_complete, bulk_processing_failed,
                      bulk_queue_job_uuid, attVars, profiles, rowLock>>

\* hr_recruitment_extract_gemini: HrJob.action_delete_cv_attachments
GeminiActionDeleteCvAttachments ==
  /\ addon = "gemini"
  /\ rowLock = 0
  /\ LET attachment_count == Cardinality(cv_attachment_ids)
     IN /\ attExists' = attExists \ cv_attachment_ids
        /\ response' = Resp("deleted", attachment_count)
  /\ cv_attachment_ids' = {}
  /\ processed_cv_attachment_ids' = {}
  /\ processing_complete' = FALSE
  /\ processing_in_progress' = FALSE
  /\ processing_failed' = FALSE
  /\ th' = Staled(0)
  /\ UNCHANGED <<confVars, processed_cv_count, failed_cv_count,
                 total_cv_count, bulk_processing_complete,
                 bulk_processing_failed, bulk_queue_job_uuid, attEmpty,
                 nextAtt, profiles, queueVars, rowLock>>

\* ------------------------------------------------ queue.job collaborator
\* a step of a background run returns nothing to the user
Background == response' = Resp("none", 0)

\* The job runner picks a pending job and calls its method.  The run's
\* recordset `attachments` reads its fields through the job's own cursor:
\* the first att.name prefetches the names of all the records that exist.
JobStart(r) ==
  /\ qstate[r] = "pending"
  /\ qstate' = [qstate EXCEPT ![r] = "started"]
  /\ th' = [th EXCEPT ![r] =
              [NoLocals EXCEPT !.pc = "loop", !.idx = 1,
                               !.cached = Range(qargs[r]) \cap attExists]]
  /\ Background
  /\ UNCHANGED <<confVars, jobVars, attVars, profiles, qargs, nextRun,
                 rowLock>>

\* the method returned: the job runner marks the job done (the OpenAI run
\* wrote nothing through the job's own cursor)
JobDone(r) ==
  /\ addon = "openai"
  /\ th[r].pc = "returned"
  /\ qstate' = [qstate EXCEPT ![r] = "done"]
  /\ th' = [th EXCEPT ![r] = [NoLocals EXCEPT !.pc = "done"]]
  /\ Background
  /\ UNCHANGED <<confVars, jobVars, attVars, profiles, qargs, nextRun,
                 rowLock>>

\* the method raised: the job runner marks the job failed
JobFailed(r) ==
  /\ th[r].pc = "raised"
  /\ qstate' = [qstate EXCEPT ![r] = "failed"]
  /\ th' = [th EXCEPT ![r] = [NoLocals EXCEPT !.pc = "crashed"]]
  /\ Background
  /\ UNCHANGED <<confVars, jobVars, attVars, profiles, qargs, nextRun,
                 rowLock>>

\* ----------------------------------- OpenAI run: _process_bulk_extraction
Att(r) == qargs[r][th[r].idx]

\* `cv_name_for_log = att.name` stands outside every try block: for a record
\* unlinked before the run began it raises MissingError, which leaves
\* _process_bulk_extraction and _process_cvs_thread.
OpenAIRunCrash(r) ==
  /\ addon = "openai"
  /\ th[r].pc = "loop"
  /\ Att(r) \notin th[r].cached
  /\ th' = [th EXCEPT ![r].pc = "raised"]
  /\ Background
  /\ UNCHANGED <<confVars, jobVars, attVars, profiles, queueVars, rowLock>>

\* variant: the run that takes the row of the job posting before it calls
\* the service, and so holds it across the call
BeginExtractionLocked(r) ==
  /\ addon = "openai"
  /\ th[r].pc = "loop"
  /\ Att(r) \in th[r].cached
  /\ rowLock = 0
  /\ rowLock' = IF Att(r) \notin attExists \/ Att(r) \in attEmpty THEN 0 ELSE r
  /\ th' = [th EXCEPT
       ![r].attempted = Append(@, Att(r)),
       ![r].applicant_id = 0,
       ![r].error_msg =
          IF Att(r) \notin attExists THEN "missing"
          ELSE IF Att(r) \in attEmpty THEN "empty"
          ELSE "",
       ![r].pc =
          IF Att(r) \notin attExists \/ Att(r) \in attEmpty
          THEN "stats" ELSE "call"]
  /\ Background
  /\ UNCHANGED <<confVars, jobVars, attVars, profiles, queueVars>>

\* 1.1 Extraction Transaction, up to the call of the service: work_cr reads
\* the attachment (MissingError when it was unlinked meanwhile) and raises
\* UserError on empty datas.
BeginExtraction(r) ==
  /\ addon = "openai"
  /\ th[r].pc = "loop"
  /\ Att(r) \in th[r].cached
  /\ th' = [th EXCEPT
       ![r].attempted = Append(@, Att(r)),
       ![r].applicant_id = 0,
       ![r].error_msg =
          IF Att(r) \notin attExists THEN "missing"
          ELSE IF Att(r) \in attEmpty THEN "empty"
          ELSE "",
       ![r].pc =
          IF Att(r) \notin attExists \/ Att(r) \in attEmpty
          THEN "stats" ELSE "call"]
  /\ Background
  /\ UNCHANGED <<confVars, jobVars, attVars, profiles, queueVars, rowLock>>

\* HrApplicant._openai_call: the configuration is fetched first
\* (_openai_get_client), so with a missing key or model the UserError is
\* the only outcome; otherwise the service answers or the call raises.
openai_call(c) ==
  IF openai_get_client(c) # "ok" THEN {openai_get_client(c)}
  ELSE {"service_error", "answer"}

\* What happens in a document's transaction from the call on: the step that
\* raises, or "ok".  A failure of the skill step is swallowed by
\* _process_extracted_cv_data (partial success); every other failure leaves
\* the block.
DocOutcomes(call) ==
  IF "answer" \in call
  THEN (call \ {"answer"}) \cup
       {"create_error", "simple_error", "skill_partial", "attach_error", "ok"}
  ELSE call

AllOutcomes ==
  {"no_api_key", "no_model", "service_error", "parse_error", "create_error",
   "simple_error", "skill_partial", "attach_error", "ok"}

\* the steps of the transaction that ran before outcome o was raised
StepsDone(o) ==
  CASE o = "create_error" -> {"call"}
    [] o = "simple_error" -> {"call", "create"}
    [] o = "skill_partial" -> {"call", "create", "details", "attach", "commit"}
    [] o = "attach_error" -> {"call", "create", "details"}
    [] o = "ok" -> {"call", "create", "details", "attach", "commit"}
    [] OTHER -> {}

\* work_cr.commit() is the last statement of the `with` block; leaving the
\* block by an exception rolls the cursor back
Committed(o) == "commit" \in StepsDone(o)

\* variant: a transaction whose rollback does not undo the create
ProfilesWrittenWithoutRollback(o) == IF "create" \in StepsDone(o) THEN 1 ELSE 0

\* profiles of the document that persist after its extraction transaction:
\* the profile, its skill links and its attachment copy are written through
\* work_cr and persist or vanish together
ProfilesWritten(o) ==
  IF "create" \in StepsDone(o) /\ Committed(o) THEN 1 ELSE 0

\* str(e) of the exception, as far as the run tells errors apart
ErrorMsg(o) == IF o \in {"no_api_key", "no_model"} THEN o ELSE "failed"

FinishExtraction(r, c, o) ==
  /\ addon = "openai"
  /\ th[r].pc = "call"
  /\ o \in DocOutcomes(openai_call(c))
  /\ profiles' = [profiles EXCEPT ![Att(r)] = @ + ProfilesWritten(o)]
  /\ th' = [th EXCEPT
       ![r].applicant_id = IF Committed(o) THEN Att(r) ELSE 0,
       ![r].error_msg = IF Committed(o) THEN "" ELSE ErrorMsg(o),
       ![r].pc = "stats"]
  /\ Background
  /\ UNCHANGED <<confVars, jobVars, attVars, queueVars, rowLock>>

\* 1.2 Stats Update Transaction: SELECT ... FOR UPDATE waits for the row
StatsLock(r) ==
  /\ addon = "openai"
  /\ th[r].pc = "stats"
  /\ rowLock = 0
  /\ rowLock' = r
  /\ th' = [th EXCEPT ![r].pc = "stats_locked"]
  /\ Background
  /\ UNCHANGED <<confVars, jobVars, attVars, profiles, queueVars>>

AfterDoc(r) == IF th[r].idx < Len(qargs[r]) THEN "loop" ELSE "notify"

\* the counter update and stats_cr.commit().  Linking an attachment that
\* was unlinked meanwhile violates the foreign key of the relation table:
\* the exception is logged (e_stats) and the transaction rolled back.
StatsUpdate(r) ==
  /\ addon = "openai"
  /\ th[r].pc = "stats_locked"
  /\ rowLock' = 0
  /\ IF th[r].error_msg # ""
     THEN /\ failed_cv_count' = failed_cv_count + 1
          /\ th' = [th EXCEPT ![r].errors = Append(@, Att(r)),
                              ![r].fail_count = @ + 1,
                              ![r].idx = @ + 1,
                              ![r].pc = AfterDoc(r)]
          /\ UNCHANGED <<processed_cv_count, processed_cv_attachment_ids>>
     ELSE IF Att(r) \in attExists
     THEN /\ processed_cv_count' = processed_cv_count + 1
          /\ processed_cv_attachment_ids' =
                processed_cv_attachment_ids \cup {Att(r)}
          /\ th' = [th EXCEPT
                ![r].successful_ids = Append(@, th[r].applicant_id),
                ![r].idx = @ + 1,
                ![r].pc = AfterDoc(r)]
          /\ UNCHANGED failed_cv_count
     ELSE /\ th' = [th EXCEPT ![r].idx = @ + 1, ![r].pc = AfterDoc(r)]
          /\ UNCHANGED <<processed_cv_count, processed_cv_attachment_ids,
                         failed_cv_count>>
  /\ Background
  /\ UNCHANGED <<confVars, cv_attachment_ids, total_cv_count,
                 bulk_processing_complete, bulk_processing_failed,
                 bulk_queue_job_uuid, processing_in_progress,
                 processing_complete, processing_failed, attVars, profiles,
                 queueVars>>

\* --------------------------------------- OpenAI run: _process_cvs_thread
Notification(title, type, ok, ko) ==
  [title |-> title, type |-> type, succeeded |-> ok, failed |-> ko]

\* PHASE 2: notify bulk completion; then should_run_match is computed from
\* the job posting's run_ai_match_on_bulk and requirement_statement_ids
NotifyExtraction(r, run_ai_match_on_bulk, requirement_statement_ids) ==
  /\ addon = "openai"
  /\ th[r].pc = "notify"
  /\ LET total_extract_success == Len(th[r].successful_ids)
         total_extract_fail == th[r].fail_count
         should_run_match ==
           /\ run_ai_match_on_bulk
           /\ requirement_statement_ids
           /\ th[r].successful_ids # <<>>
     IN th' = [th EXCEPT
          ![r].sent = Append(@,
             Notification("Extraction Complete",
                          IF total_extract_fail = 0 THEN "success"
                          ELSE "warning",
                          total_extract_success, total_extract_fail)),
          ![r].should_run_match = should_run_match,
          ![r].pc = IF should_run_match THEN "match_start" ELSE "finalize"]
  /\ Background
  /\ UNCHANGED <<confVars, jobVars, attVars, profiles, queueVars, rowLock>>

\* variant: the match phase that starts without telling the user
NotifyMatchStartSilent(r) ==
  /\ addon = "openai"
  /\ th[r].pc = "match_start"
  /\ th' = [th EXCEPT ![r].pc = "matching"]
  /\ response' = [tag |-> "none", count |-> 0]
  /\ UNCHANGED <<confVars, jobVars, attVars, profiles, queueVars, rowLock>>

\* PHASE 3 & 4: notify AI match start
NotifyMatchStart(r) ==
  /\ addon = "openai"
  /\ th[r].pc = "match_start"
  /\ th' = [th EXCEPT
       ![r].sent = Append(@, Notification("AI Match Started", "info",
                                          Len(th[r].successful_ids), 0)),
       ![r].pc = "matching"]
  /\ Background
  /\ UNCHANGED <<confVars, jobVars, attVars, profiles, queueVars, rowLock>>

\* PHASE 5: _process_bulk_matching, k of the matches fail
ProcessBulkMatching(r, k) ==
  /\ addon = "openai"
  /\ th[r].pc = "matching"
  /\ k \in 0..Len(th[r].successful_ids)
  /\ th' = [th EXCEPT ![r].match_fail = k, ![r].pc = "match_finish"]
  /\ Background
  /\ UNCHANGED <<confVars, jobVars, attVars, profiles, queueVars, rowLock>>

\* PHASE 6: notify AI match finish
NotifyMatchFinish(r) ==
  /\ addon = "openai"
  /\ th[r].pc = "match_finish"
  /\ th' = [th EXCEPT
       ![r].sent = Append(@,
          Notification("AI Match Bulk Finished", "success",
                       Len(th[r].successful_ids) - th[r].match_fail,
                       th[r].match_fail)),
       ![r].pc = "finalize"]
  /\ Background
  /\ UNCHANGED <<confVars, jobVars, attVars, profiles, queueVars, rowLock>>

\* Finalize Job State: SELECT ... FOR UPDATE waits for the row
FinalizeLock(r) ==
  /\ addon = "openai"
  /\ th[r].pc = "finalize"
  /\ rowLock = 0
  /\ rowLock' = r
  /\ th' = [th EXCEPT ![r].pc = "finalize_locked"]
  /\ Background
  /\ UNCHANGED <<confVars, jobVars, attVars, profiles, queueVars>>

\* final_job.write and final_cr.commit(); the method returns
FinalizeWrite(r) ==
  /\ addon = "openai"
  /\ th[r].pc = "finalize_locked"
  /\ rowLock' = 0
  /\ bulk_processing_complete' = TRUE
  /\ bulk_processing_failed' = (th[r].fail_count > 0)
  /\ bulk_queue_job_uuid' = 0
  /\ th' = [th EXCEPT ![r].pc = "returned"]
  /\ Background
  /\ UNCHANGED <<confVars, cv_attachment_ids, processed_cv_attachment_ids,
                 processed_cv_count, failed_cv_count, total_cv_count,
                 processing_in_progress, processing_complete,
                 processing_failed, attVars, profiles, queueVars>>

\* ------------------------------ Gemini run: _process_gemini_cvs_thread
\* HrApplicant._gemini_call_for_cv followed by _parse_gemini_response
gemini_call(c) ==
  IF gemini_get_config(c) # "ok" THEN {gemini_get_config(c)}
  ELSE {"service_error", "parse_error", "answer"}

\* outcome o ran the iteration up to `success_count += 1` and the
\* self.write that links the document to processed_cv_attachment_ids
ReachesLink(o) == "attach" \in StepsDone(o)

\* The record was unlinked before the run began: att.name raises
\* MissingError inside the inner try, and again inside its except clause,
\* whose message reads att.name too.  The outer except clause rolls the
\* job's cursor back: what the run wrote so far is undone, the row lock is
\* released and the cursor takes a new snapshot.
GeminiCriticalError(r) ==
  /\ addon = "gemini"
  /\ th[r].pc = "loop"
  /\ Att(r) \notin th[r].cached
  /\ th' = [th EXCEPT ![r].critical_error = TRUE,
                      ![r].successful_ids = <<>>,
                      ![r].stale = FALSE,
                      ![r].errors = Append(@, 0),
                      ![r].pc = "finally"]
  /\ rowLock' = IF rowLock = r THEN 0 ELSE rowLock
  /\ Background
  /\ UNCHANGED <<confVars, jobVars, attVars, profiles, queueVars>>

GeminiAfterDoc(r) == IF th[r].idx < Len(qargs[r]) THEN "loop" ELSE "finally"

\* One iteration of the loop, inside its savepoint.  Empty datas: the
\* document is skipped by `continue`.  The last statement, self.write,
\* updates the hr_job row: it waits for the row lock, keeps it until the
\* job's cursor ends, and fails when the row changed since the snapshot.
\* successful_ids holds the documents whose profile and link wait for the
\* commit of the job's cursor.
GeminiProcessCv(r, c, o) ==
  /\ addon = "gemini"
  /\ th[r].pc = "loop"
  /\ Att(r) \in th[r].cached
  /\ o \in DocOutcomes(gemini_call(c))
  /\ LET links == Att(r) \notin attEmpty /\ ReachesLink(o)
     IN /\ (links /\ ~th[r].stale) => rowLock \in {0, r}
        /\ IF Att(r) \in attEmpty
           THEN /\ th' = [th EXCEPT ![r].attempted = Append(@, Att(r)),
                                    ![r].idx = @ + 1,
                                    ![r].pc = GeminiAfterDoc(r)]
                /\ UNCHANGED rowLock
           ELSE IF links /\ ~th[r].stale
           THEN /\ th' = [th EXCEPT ![r].attempted = Append(@, Att(r)),
                                    ![r].success_count = @ + 1,
                                    ![r].successful_ids = Append(@, Att(r)),
                                    ![r].idx = @ + 1,
                                    ![r].pc = GeminiAfterDoc(r)]
                /\ rowLock' = r
           ELSE /\ th' = [th EXCEPT ![r].attempted = Append(@, Att(r)),
                                    ![r].success_count =
                                       IF links THEN @ + 1 ELSE @,
                                    ![r].fail_count = @ + 1,
                                    ![r].errors = Append(@, Att(r)),
                                    ![r].error_msg =
                                       IF links THEN "failed" ELSE ErrorMsg(o),
                                    ![r].idx = @ + 1,
                                    ![r].pc = GeminiAfterDoc(r)]
                /\ UNCHANGED rowLock
  /\ Background
  /\ UNCHANGED <<confVars, jobVars, attVars, profiles, queueVars>>

\* finally: update job state (final_vals), through the job's cursor.  When
\* the write fails, e_finally is caught: critical_error and one more error.
GeminiFinalWrite(r) ==
  /\ addon = "gemini"
  /\ th[r].pc = "finally"
  /\ IF th[r].stale
     THEN /\ th' = [th EXCEPT ![r].critical_error = TRUE,
                              ![r].errors = Append(@, 0),
                              ![r].pc = "final_notify"]
          /\ UNCHANGED rowLock
     ELSE /\ rowLock \in {0, r}
          /\ rowLock' = r
          /\ th' = [th EXCEPT ![r].pc = "final_notify"]
  /\ Background
  /\ UNCHANGED <<confVars, jobVars, attVars, profiles, queueVars>>

\* finally: send final notification (_notify_user commits it through a
\* cursor of its own); the method returns
GeminiNotify(r) ==
  /\ addon = "gemini"
  /\ th[r].pc = "final_notify"
  /\ LET job_failed == th[r].fail_count > 0 \/ th[r].critical_error
     IN th' = [th EXCEPT
          ![r].sent = Append(@,
             Notification(IF job_failed THEN "Processing Finished with Errors"
                          ELSE "Processing Complete",
                          IF job_failed THEN "warning" ELSE "success",
                          th[r].success_count, th[r].fail_count)),
          ![r].pc = "returned"]
  /\ Background
  /\ UNCHANGED <<confVars, jobVars, attVars, profiles, queueVars, rowLock>>

\* The method returned and the job runner ends the job's cursor.  The
\* commit publishes the profiles, the links to
\* processed_cv_attachment_ids and final_vals, and releases the row lock;
\* a cursor whose final write failed has nothing to publish.
GeminiCommit(r) ==
  /\ addon = "gemini"
  /\ th[r].pc = "returned"
  /\ IF th[r].stale
     THEN /\ qstate' = [qstate EXCEPT ![r] = "failed"]
          /\ th' = [th EXCEPT ![r] = [NoLocals EXCEPT !.pc = "crashed"]]
          /\ UNCHANGED <<jobVars, profiles, rowLock>>
     ELSE /\ qstate' = [qstate EXCEPT ![r] = "done"]
          /\ profiles' = [a \in Atts |->
                IF a \in Range(th[r].successful_ids)
                THEN profiles[a] + 1 ELSE profiles[a]]
          /\ processed_cv_attachment_ids' =
                processed_cv_attachment_ids \cup Range(th[r].successful_ids)
          /\ processing_in_progress' = FALSE
          /\ processing_complete' = TRUE
          /\ processing_failed' =
                (th[r].fail_count > 0 \/ th[r].critical_error)
          /\ rowLock' = 0
          /\ th' = [Staled(r) EXCEPT ![r] = [NoLocals EXCEPT !.pc = "done"]]
          /\ UNCHANGED <<cv_attachment_ids, processed_cv_count,
                         failed_cv_count, total_cv_count,
                         bulk_processing_complete, bulk_processing_failed,
                         bulk_queue_job_uuid>>
  /\ Background
  /\ UNCHANGED <<confVars, attVars, qargs, nextRun>>

\* ------------------------------------------------------------------ Next
Next ==
  \/ \E e \in BOOLEAN : UploadCv(e)
  \/ OpenAIActionProcessCvs
  \/ OpenAIActionDeleteCvAttachments
  \/ GeminiActionProcessCvs
  \/ GeminiActionDeleteCvAttachments
  \/ \E r \in Runs : JobStart(r)
  \/ \E r \in Runs : JobDone(r)
  \/ \E r \in Runs : JobFailed(r)
  \/ \E r \in Runs : OpenAIRunCrash(r)
  \/ \E r \in Runs : BeginExtraction(r)
  \/ \E r \in Runs, c \in Companies, o \in AllOutcomes :
        FinishExtraction(r, c, o)
  \/ \E r \in Runs : StatsLock(r)
  \/ \E r \in Runs : StatsUpdate(r)
  \/ \E r \in Runs, m \in BOOLEAN, q \in BOOLEAN : NotifyExtraction(r, m, q)
  \/ \E r \in Runs : NotifyMatchStart(r)
  \/ \E r \in Runs, k \in 0..MaxAtt : ProcessBulkMatching(r, k)
  \/ \E r \in Runs : NotifyMatchFinish(r)
  \/ \E r \in Runs : FinalizeLock(r)
  \/ \E r \in Runs : FinalizeWrite(r)
  \/ \E r \in Runs : GeminiCriticalError(r)
  \/ \E r \in Runs, c \in Companies, o \in AllOutcomes :
        GeminiProcessCv(r, c, o)
  \/ \E r \in Runs : GeminiFinalWrite(r)
  \/ \E r \in Runs : GeminiNotify(r)
  \/ \E r \in Runs : GeminiCommit(r)

Spec == Init /\ [][Next]_vars

\* ================================================== response normalizer
\* _parse_openai_response and _parse_gemini_response are the same function.
\* A response text is a sequence of lexemes: "{" and "}", "m" (one
\* "key": scalar member), "k" (a "key": prefix, to be followed by an
\* object), "w" (a word of prose), " " (a blank), "F" (the line ```json
\* with its newline) and "E" (a newline and the line ```).
Lexemes == {"{", "}", "m", "k", "w", " ", "F", "E"}
Texts == UNION {[1..n -> Lexemes] : n \in 0..MaxLen}

Min(S) == CHOOSE x \in S : \A y \in S : x <= y

\* the text without its blanks: json.loads skips whitespace between lexemes
RECURSIVE Unblank(_)
Unblank(t) ==
  IF t = <<>> THEN <<>>
  ELSE IF Head(t) = " " THEN Unblank(Tail(t))
  ELSE <<Head(t)>> \o Unblank(Tail(t))

\* the JSON documents of these lexemes: {}, {m} and {k object}
RECURSIVE IsObject(_)
IsObject(u) ==
  /\ Len(u) >= 2
  /\ u[1] = "{"
  /\ u[Len(u)] = "}"
  /\ LET inner == SubSeq(u, 2, Len(u) - 1)
     IN \/ inner = <<>>
        \/ inner = <<"m">>
        \/ Len(inner) >= 1 /\ inner[1] = "k" /\ IsObject(Tail(inner))

JSONDecodeError == [kind |-> "JSONDecodeError", value |-> <<>>]

\* json.loads: the value (the document without insignificant whitespace)
\* or JSONDecodeError
json_loads(t) ==
  IF IsObject(Unblank(t)) THEN [kind |-> "value", value |-> Unblank(t)]
  ELSE JSONDecodeError

NoMatch == [found |-> FALSE, group |-> <<>>]

\* re.search(r"```json\n(.*?)\n```", response_text, re.DOTALL): group(1).
\* The leftmost opening line that has a closing line after it, up to the
\* nearest closing line.  The newline that ends a lexeme "F" and the ```
\* of a lexeme "F" that follows it also read as a closing line, unless
\* that newline is the one of the opening line itself.
fence_match(t) ==
  LET opens == {i \in 1..Len(t) : t[i] = "F"}
      closes(i) == {j \in (i + 1)..Len(t) :
                      \/ t[j] = "E"
                      \/ t[j] = "F" /\ j - 1 > i /\ t[j - 1] = "F"}
      ok == {i \in opens : closes(i) # {}}
  IN IF ok = {} THEN NoMatch
     ELSE [found |-> TRUE,
           group |-> SubSeq(t, Min(ok) + 1, Min(closes(Min(ok))) - 1)]

\* variant: the brace search that stops at the nearest closing brace,
\* r"\{.*?\}"
brace_match_lazy(t) ==
  LET opens == {i \in 1..Len(t) : t[i] = "{"}
      closes(i) == {j \in (i + 1)..Len(t) : t[j] = "}"}
      ok == {i \in opens : closes(i) # {}}
  IN IF ok = {} THEN NoMatch
     ELSE [found |-> TRUE,
           group |-> SubSeq(t, Min(ok), Min(closes(Min(ok))))]

\* re.search(r"\{.*\}", response_text, re.DOTALL): group(0).  Greedy: from
\* the first opening brace to the last closing brace of the text.
brace_match(t) ==
  LET opens == {i \in 1..Len(t) : t[i] = "{"}
      closes(i) == {j \in (i + 1)..Len(t) : t[j] = "}"}
      ok == {i \in opens : closes(i) # {}}
  IN IF ok = {} THEN NoMatch
     ELSE [found |-> TRUE,
           group |-> SubSeq(t, Min(ok), Max(closes(Min(ok))))]

\* UserError("... returned an invalid response that could not be parsed.
\* Raw text: %s", response_text)
InvalidResponse(t) == [kind |-> "UserError", value |-> t]

\* _parse_openai_response / _parse_gemini_response
parse_response(t) ==
  IF json_loads(t) # JSONDecodeError THEN json_loads(t)
  ELSE LET json_text ==
             IF fence_match(t).found THEN fence_match(t)
             ELSE IF brace_match(t).found THEN brace_match(t)
             ELSE NoMatch
       IN IF ~json_text.found THEN InvalidResponse(t)
          ELSE IF json_loads(Strip(json_text.group)) = JSONDecodeError
          THEN InvalidResponse(t)
          ELSE json_loads(Strip(json_text.group))

\* the normalizer is applied to the text it was handed
ParseResponse ==
  /\ parsed = NotParsed
  /\ parsed' = parse_response(response_text)
  /\ UNCHANGED <<addon, response_text, applicantVars, jobVars, attVars,
                 profiles, queueVars, th, rowLock, response, restVars>>

\* every text of the service, of at most MaxLen lexemes
InitParse ==
  /\ addon \in {"openai", "gemini"}
  /\ BulkInit
  /\ response_text \in Texts
  /\ parsed = NotParsed
  /\ ApplicantInit
  /\ TaxIdle
  /\ JdIdle
  /\ MatchIdle

NextParse == ParseResponse

SpecParse == InitParse /\ [][NextParse]_vars

\* ========================================= single-applicant extraction
\* action_extract_with_openai / action_extract_with_gemini and
\* _run_openai_extraction_job / _run_gemini_extraction_job are the same code
\* in both addons.  One applicant.  The job runs in the job runner's cursor:
\* what it writes is in its environment at once and is committed when the
\* method has returned, or by the commit of its except clause.
bulkVars == <<jobVars, attVars, profiles, queueVars, th, rowLock>>

\* _compute_can_extract_with_openai / _compute_can_extract_with_gemini
\* without the test of the state
can_extract_any_state ==
  /\ cv_extract_mode = "manual_send"
  /\ message_main_attachment_id # "none"

\* _compute_can_extract_with_openai / _compute_can_extract_with_gemini
can_extract ==
  /\ cv_extract_mode = "manual_send"
  /\ message_main_attachment_id # "none"
  /\ extract_state \in {"no_extract", "error", "done"}

\* variant: the button that does not test the extraction state
ActionExtractAnyState ==
  /\ IF ~can_extract_any_state
     THEN /\ response' = Resp("err_not_ready", 0)
          /\ UNCHANGED applicantVars
     ELSE /\ nextJob <= MaxJobs
          /\ extract_state' = "pending"
          /\ extract_status' = "queued"
          /\ ajob' = [ajob EXCEPT ![nextJob] = [NoJob EXCEPT !.pc = "pending"]]
          /\ nextJob' = nextJob + 1
          /\ response' = Resp("queued", 1)
          /\ UNCHANGED <<simple_fields, message_main_attachment_id,
                         cv_extract_mode>>
  /\ UNCHANGED <<addon, parseVars, bulkVars, restVars>>

\* action_extract_with_*: the button
ActionExtract ==
  /\ IF ~can_extract
     THEN /\ response' = Resp("err_not_ready", 0)
          /\ UNCHANGED applicantVars
     ELSE /\ nextJob <= MaxJobs
          /\ extract_state' = "pending"
          /\ extract_status' = "queued"
          /\ ajob' = [ajob EXCEPT ![nextJob] = [NoJob EXCEPT !.pc = "pending"]]
          /\ nextJob' = nextJob + 1
          /\ response' = Resp("queued", 1)
          /\ UNCHANGED <<simple_fields, message_main_attachment_id,
                         cv_extract_mode>>
  /\ UNCHANGED <<addon, parseVars, bulkVars, restVars>>

\* the job's cursor holds the row lock of the applicant from its first
\* UPDATE until it commits or rolls back
HoldsRow(j) ==
  \/ ajob[j].pc \in {"call", "parse", "except"}
  \/ ajob[j].pc \in {"notify", "returned"} /\ ajob[j].success

\* a user sets or removes the main attachment of the applicant (a write of
\* the applicant's row, which waits for the row lock)
SetMainAttachment(v) ==
  /\ v # message_main_attachment_id
  /\ \A j \in Jobs : ~HoldsRow(j)
  /\ message_main_attachment_id' = v
  /\ ajob' = [j \in Jobs |->
                IF ajob[j].pc = "begin" THEN [ajob[j] EXCEPT !.stale = TRUE]
                ELSE ajob[j]]
  /\ response' = Resp("saved", 0)
  /\ UNCHANGED <<extract_state, extract_status, simple_fields,
                 cv_extract_mode, nextJob>>
  /\ UNCHANGED <<addon, parseVars, bulkVars, restVars>>

\* HR settings: the company's extraction mode
SetMode(v) ==
  /\ v # cv_extract_mode
  /\ cv_extract_mode' = v
  /\ response' = Resp("saved", 0)
  /\ UNCHANGED <<extract_state, extract_status, simple_fields,
                 message_main_attachment_id, ajob, nextJob>>
  /\ UNCHANGED <<addon, parseVars, bulkVars, restVars>>

\* the job runner picks the job and calls the method: the cursor's snapshot
ExtractionJobStart(j) ==
  /\ ajob[j].pc = "pending"
  /\ ajob' = [ajob EXCEPT ![j].pc = "begin",
                          ![j].state = extract_state,
                          ![j].status = extract_status,
                          ![j].fields = simple_fields]
  /\ Background
  /\ UNCHANGED <<extract_state, extract_status, simple_fields,
                 message_main_attachment_id, cv_extract_mode, nextJob>>
  /\ UNCHANGED <<addon, parseVars, bulkVars, restVars>>

\* 1. Set state to 'processing'.  The UPDATE of a row changed since the
\* snapshot raises a serialization failure.
WriteProcessing(j) ==
  /\ ajob[j].pc = "begin"
  /\ ajob' = [ajob EXCEPT
       ![j].state = "processing",
       ![j].status = "calling",
       ![j].e = IF ajob[j].stale THEN Exc("concurrent_update", <<>>)
                ELSE NoExc,
       ![j].pc = IF ajob[j].stale THEN "except" ELSE "call"]
  /\ Background
  /\ UNCHANGED <<extract_state, extract_status, simple_fields,
                 message_main_attachment_id, cv_extract_mode, nextJob>>
  /\ UNCHANGED <<addon, parseVars, bulkVars, restVars>>

\* what the service does when it is called: it raises, or it answers a text
ResponseSamples ==
  { <<"{", "m", "}">>, <<"{", "}">>, <<"F", "{", "m", "}", "E">>,
    <<"w", " ", "{", " ", "m", " ">> }
ServiceOutcomes ==
  {[raised |-> TRUE, text |-> <<>>]}
    \cup {[raised |-> FALSE, text |-> t] : t \in ResponseSamples}

\* _openai_call_for_cv / _gemini_call_for_cv: the exception raised, or NoExc
call_for_cv(c, o) ==
  LET conf == IF addon = "openai" THEN openai_get_client(c)
              ELSE gemini_get_config(c)
  IN IF conf # "ok" THEN Exc(conf, <<>>)
     ELSE IF message_main_attachment_id = "none"
     THEN Exc("no_attachment", <<>>)
     ELSE IF message_main_attachment_id = "empty"
     THEN Exc("empty_cv", <<>>)
     ELSE IF o.raised THEN Exc("api_call_failed", <<>>)
     ELSE NoExc

\* 2. Call API
CallForCv(j, c, o) ==
  /\ ajob[j].pc = "call"
  /\ c \in Companies
  /\ o \in ServiceOutcomes
  /\ ajob' = [ajob EXCEPT
       ![j].e = call_for_cv(c, o),
       ![j].response_text = IF call_for_cv(c, o) = NoExc THEN o.text
                            ELSE <<>>,
       ![j].pc = IF call_for_cv(c, o) = NoExc THEN "parse" ELSE "except"]
  /\ Background
  /\ UNCHANGED <<extract_state, extract_status, simple_fields,
                 message_main_attachment_id, cv_extract_mode, nextJob>>
  /\ UNCHANGED <<addon, parseVars, bulkVars, restVars>>

\* _write_extracted_data: nothing is written from empty data
write_extracted_data(fields, data) ==
  IF data = <<"{", "}">> THEN fields ELSE data

\* what the database does with the writes of steps 4 and after: all succeed,
\* the write of the simple fields fails, the skills fail, the write of the
\* state done fails
WriteOutcomes == {"ok", "simple_fails", "skills_fail", "done_fails"}

\* 3. Parse Response, 4. Write all data (_process_extracted_cv_data), and
\* the write of the state done
ParseAndWrite(j, w) ==
  /\ ajob[j].pc = "parse"
  /\ w \in WriteOutcomes
  /\ LET extracted_data == parse_response(ajob[j].response_text)
         written == write_extracted_data(ajob[j].fields,
                                         extracted_data.value)
     IN ajob' = [ajob EXCEPT ![j] =
          IF extracted_data.kind = "UserError"
          THEN [@ EXCEPT !.status = "parsing",
                         !.e = Exc("invalid_response", extracted_data.value),
                         !.pc = "except"]
          ELSE IF w = "simple_fails"
          THEN [@ EXCEPT !.status = "parsing",
                         !.e = Exc("write_simple_failed", <<>>),
                         !.pc = "except"]
          ELSE IF w = "done_fails"
          THEN [@ EXCEPT !.status = "parsing",
                         !.fields = written,
                         !.e = Exc("write_failed", <<>>),
                         !.pc = "except"]
          ELSE [@ EXCEPT !.fields = written,
                         !.state = "done",
                         !.status = IF w = "skills_fail" THEN "skills_failed"
                                    ELSE "extracted",
                         !.success = TRUE,
                         !.pc = "notify"]]
  /\ Background
  /\ UNCHANGED <<extract_state, extract_status, simple_fields,
                 message_main_attachment_id, cv_extract_mode, nextJob>>
  /\ UNCHANGED <<addon, parseVars, bulkVars, restVars>>

\* _("Error: %s", str(e))
ErrorStatus(e) == [error |-> e]

\* variant: the except clause that writes the error state without rolling
\* back what the job has written
HandleErrorWithoutRollback(j) ==
  /\ ajob[j].pc = "except"
  /\ extract_state' = "error"
  /\ extract_status' = ErrorStatus(ajob[j].e)
  /\ simple_fields' = ajob[j].fields
  /\ ajob' = [ajob EXCEPT ![j].state = "error",
                          ![j].status = ErrorStatus(ajob[j].e),
                          ![j].error_message = ajob[j].e,
                          ![j].pc = "notify"]
  /\ Background
  /\ UNCHANGED <<message_main_attachment_id, cv_extract_mode, nextJob>>
  /\ UNCHANGED <<addon, parseVars, bulkVars, restVars>>

\* except Exception: rollback, write the error state, commit
HandleError(j) ==
  /\ ajob[j].pc = "except"
  /\ extract_state' = "error"
  /\ extract_status' = ErrorStatus(ajob[j].e)
  /\ ajob' = [ajob EXCEPT ![j].state = "error",
                          ![j].status = ErrorStatus(ajob[j].e),
                          ![j].fields = simple_fields,
                          ![j].error_message = ajob[j].e,
                          ![j].pc = "notify"]
  /\ Background
  /\ UNCHANGED <<simple_fields, message_main_attachment_id, cv_extract_mode,
                 nextJob>>
  /\ UNCHANGED <<addon, parseVars, bulkVars, restVars>>

\* finally: the success or the failure notification (_notify_user commits
\* it through a cursor of its own); the method returns
NotifyUser(j) ==
  /\ ajob[j].pc = "notify"
  /\ ajob' = [ajob EXCEPT
       ![j].sent = Append(@,
          IF ajob[j].success
          THEN [title |-> "Processing Complete", type |-> "success",
                e |-> NoExc]
          ELSE [title |-> "Processing Failed", type |-> "warning",
                e |-> ajob[j].error_message]),
       ![j].pc = "returned"]
  /\ Background
  /\ UNCHANGED <<extract_state, extract_status, simple_fields,
                 message_main_attachment_id, cv_extract_mode, nextJob>>
  /\ UNCHANGED <<addon, parseVars, bulkVars, restVars>>

\* the job runner commits the job's cursor and marks the job done
ExtractionJobDone(j) ==
  /\ ajob[j].pc = "returned"
  /\ IF ajob[j].success
     THEN /\ extract_state' = ajob[j].state
          /\ extract_status' = ajob[j].status
          /\ simple_fields' = ajob[j].fields
     ELSE UNCHANGED <<extract_state, extract_status, simple_fields>>
  /\ ajob' = [ajob EXCEPT ![j] = [NoJob EXCEPT !.pc = "done"]]
  /\ Background
  /\ UNCHANGED <<message_main_attachment_id, cv_extract_mode, nextJob>>
  /\ UNCHANGED <<addon, parseVars, bulkVars, restVars>>

InitApplicant ==
  /\ addon \in {"openai", "gemini"}
  /\ BulkInit
  /\ ParseIdle
  /\ ApplicantInit
  /\ TaxIdle
  /\ JdIdle
  /\ MatchIdle

NextApplicant ==
  \/ ActionExtract
  \/ \E v \in {"none", "cv", "empty"} : SetMainAttachment(v)
  \/ \E v \in {"manual_send", "no_send"} : SetMode(v)
  \/ \E j \in Jobs : ExtractionJobStart(j)
  \/ \E j \in Jobs : WriteProcessing(j)
  \/ \E j \in Jobs, c \in Companies, o \in ServiceOutcomes : CallForCv(j, c, o)
  \/ \E j \in Jobs, w \in WriteOutcomes : ParseAndWrite(j, w)
  \/ \E j \in Jobs : HandleError(j)
  \/ \E j \in Jobs : NotifyUser(j)
  \/ \E j \in Jobs : ExtractionJobDone(j)

SpecApplicant == InitApplicant /\ [][NextApplicant]_vars

\* ================================ extraction writer and taxonomy resolver
\* _process_extracted_cv_data, _write_extracted_data, _process_skills and
\* _get_or_create_default_skill_level are the same code in both addons.
\* The tables are those of the transaction at work: a savepoint that is left
\* by an exception puts them back as they were when it was entered.

\* a JSON value that is no string (a number)
NotAString == "<5>"

\* str.lower() on the words the model uses
Lower(s) ==
  CASE s = "IT" -> "it"
    [] s = "General" -> "general"
    [] s = "Lang" -> "lang"
    [] s = "Python" -> "python"
    [] s = "Advanced" -> "advanced"
    [] s = "Beginner" -> "beginner"
    [] s = "Ninja" -> "ninja"
    [] s = "Novice" -> "novice"
    [] s = "Hard Skill" -> "hard skill"
    [] OTHER -> s

\* a level name or label is a sequence of lexemes: words, " ", "(", ")",
\* "%" and runs of digits
LowerSeq(t) == [i \in 1..Len(t) |-> Lower(t[i])]
Digits == {"15", "50", "80"}
int(d) == CASE d = "15" -> 15 [] d = "50" -> 50 [] d = "80" -> 80

\* the domain ('name', '=ilike', pattern): equality up to letter case, "%"
\* in the pattern standing for any text
RECURSIVE ilike(_, _)
ilike(pattern, name) ==
  IF pattern = <<>> THEN name = <<>>
  ELSE IF Head(pattern) = "%"
  THEN \E k \in 0..Len(name) :
         ilike(Tail(pattern), SubSeq(name, k + 1, Len(name)))
  ELSE /\ name # <<>>
       /\ Lower(Head(pattern)) = Lower(Head(name))
       /\ ilike(Tail(pattern), Tail(name))

\* re.match(r"(.+?)\s*\((\d+)%\)", level_name_str): the shortest beginning
\* of the label that is followed by blanks and "(<digits>%)"; name is
\* match.group(1).strip() and progress int(match.group(2))
NoLevelMatch == [found |-> FALSE, name |-> <<>>, progress |-> 0]
level_match(t) ==
  LET paren(m) == /\ m + 4 <= Len(t)
                  /\ t[m + 1] = "("
                  /\ t[m + 2] \in Digits
                  /\ t[m + 3] = "%"
                  /\ t[m + 4] = ")"
      blanks(k, m) == \A i \in (k + 1)..m : t[i] = " "
      ks == {k \in 1..Len(t) : \E m \in k..Len(t) : blanks(k, m) /\ paren(m)}
  IN IF ks = {} THEN NoLevelMatch
     ELSE LET k == Min(ks)
              m == CHOOSE m \in k..Len(t) : blanks(k, m) /\ paren(m)
          IN [found |-> TRUE, name |-> Strip(SubSeq(t, 1, k)),
              progress |-> int(t[m + 2])]

\* the id of a record created in table S
NewId(S) == Max({r.id : r \in S} \cup {0}) + 1

\* a cache of _process_skills: a dict from a lower-cased name to a record
CacheGet(cache, key) ==
  IF \E e \in cache : e.key = key
  THEN (CHOOSE e \in cache : e.key = key).id
  ELSE 0
CachePut(cache, key, id) ==
  {e \in cache : e.key # key} \cup {[key |-> key, id |-> id]}

\* ---- what the service extracted
Adv80 == <<"Advanced", " ", "(", "80", "%", ")">>
\* skill_obj: type "" stands for a missing type, skill "" for a missing
\* skill, level <<>> for a missing level
SkillItem(t, s, l) == [type |-> t, skill |-> s, level |-> l]
SkillItems ==
  { SkillItem("IT", "Python", Adv80), SkillItem("it", "python", Adv80),
    SkillItem("", "Python", <<>>), SkillItem("", "Python", <<"Ninja">>),
    SkillItem("IT", "Python", <<"advanced">>),
    SkillItem("IT", NotAString, Adv80), SkillItem("IT", "", Adv80) }
\* extracted_data: the simple fields (<<"{", "}">> when there are none) and
\* the value of 'skills': absent or empty, a list, or another JSON value
ExtractedData ==
  [simple : {<<"{", "}">>, <<"{", "m", "}">>},
   skills : {"absent", "list", "not_a_list"}]

\* ---- the taxonomy the users of hr_skills may have entered before
SampleLevels ==
  { [id |-> 1, name |-> <<"Beginner">>, level_progress |-> 15],
    [id |-> 2, name |-> <<"beginner">>, level_progress |-> 50],
    [id |-> 3, name |-> <<"Advanced">>, level_progress |-> 80],
    [id |-> 4, name |-> Adv80, level_progress |-> 50],
    [id |-> 5, name |-> <<"Novice">>, level_progress |-> 0] }
SampleTypes == { [id |-> 1, name |-> "Lang", skill_level_ids |-> {}] }
SampleSkills ==
  { [id |-> 1, name |-> "python", skill_type_id |-> 1],
    [id |-> 2, name |-> "Python", skill_type_id |-> 1] }

\* the taxonomies entered before: none, the levels of the data of
\* hr_skills, levels named like labels or in another letter case, a level
\* without progress; with or without a type and its skills
Levels(ids) == {l \in SampleLevels : l.id \in ids}
TaxonomyConfigs ==
  { Tables({}, {}, {}, <<>>),
    Tables({}, Levels({1, 3}), {}, <<>>),
    Tables(SampleTypes, Levels({1, 3}), SampleSkills, <<>>),
    Tables({}, Levels({2, 4}), {}, <<>>),
    Tables(SampleTypes, Levels({3, 4, 5}), SampleSkills, <<>>),
    Tables({}, Levels({5}), {}, <<>>) }

CurrentTables ==
  Tables(hr_skill_type, hr_skill_level, hr_skill, hr_applicant_skill)

\* ---- _process_skills, one item of the list
\* skill_obj.get('type') or 'General'
type_name_str(it) == IF it.type = "" THEN "General" ELSE it.type

\* 1. Find or Create Skill Type: the ids search(limit=1) may return, 0 for
\* a record to create
TypeChoices(it) ==
  LET found == {t \in hr_skill_type :
                  ilike(<<type_name_str(it)>>, <<t.name>>)}
  IN IF CacheGet(sk.type_cache, Lower(type_name_str(it))) # 0
     THEN {CacheGet(sk.type_cache, Lower(type_name_str(it)))}
     ELSE IF found # {} THEN {t.id : t \in found}
     ELSE {0}

\* 2. Find or Create Skill Level: how the level is found and its id, 0 for
\* a record to create; the empty set when no level is found or created
LevelChoices(label) ==
  LET match == level_match(label)
      exact == IF match.found
               THEN {l \in hr_skill_level :
                       /\ ilike(match.name, l.name)
                       /\ l.level_progress = match.progress}
               ELSE {}
      byname == {l \in hr_skill_level : ilike(label, l.name)}
  IN IF label = <<>> THEN {}
     ELSE IF CacheGet(sk.level_cache, LowerSeq(label)) # 0
     THEN {[how |-> "cache",
            id |-> CacheGet(sk.level_cache, LowerSeq(label))]}
     ELSE IF exact # {} THEN {[how |-> "exact", id |-> l.id] : l \in exact}
     ELSE IF byname # {} THEN {[how |-> "name", id |-> l.id] : l \in byname}
     ELSE IF match.found THEN {[how |-> "create", id |-> 0]}
     ELSE {}

\* _get_or_create_default_skill_level: the four steps
get_or_create_default_skill_level ==
  LET exact == {l \in hr_skill_level :
                  /\ ilike(<<"Beginner">>, l.name)
                  /\ l.level_progress = 15}
      byname == {l \in hr_skill_level : ilike(<<"Beginner">>, l.name)}
      positive == {l \in hr_skill_level : l.level_progress > 0}
      lowest == {l \in positive :
                   \A o \in positive : l.level_progress <= o.level_progress}
  IN IF exact # {} THEN {[how |-> "default_exact", id |-> l.id] : l \in exact}
     ELSE IF byname # {}
     THEN {[how |-> "default_name", id |-> l.id] : l \in byname}
     ELSE IF lowest # {}
     THEN {[how |-> "default_lowest", id |-> l.id] : l \in lowest}
     ELSE {[how |-> "default_create", id |-> 0]}

\* variant: the default level looked up again for every item that needs it
DefaultChoicesEveryItem == get_or_create_default_skill_level

\* If no level found/created after all checks, get the default (lazy-load)
DefaultChoices ==
  IF sk.default_level # 0
  THEN {[how |-> "default_loaded", id |-> sk.default_level]}
  ELSE get_or_create_default_skill_level

ResolvedLevelChoices(it) ==
  IF LevelChoices(it.level) # {} THEN LevelChoices(it.level)
  ELSE DefaultChoices

\* 4. Find or Create Skill
SkillChoices(it) ==
  LET found == {s \in hr_skill : ilike(<<it.skill>>, <<s.name>>)}
  IN IF CacheGet(sk.skill_cache, Lower(it.skill)) # 0
     THEN {[how |-> "cache",
            id |-> CacheGet(sk.skill_cache, Lower(it.skill))]}
     ELSE IF found # {} THEN {[how |-> "found", id |-> s.id] : s \in found}
     ELSE {[how |-> "create", id |-> 0]}

\* the record of a level that is created
NewLevel(it, lv) ==
  IF lv.how = "create"
  THEN [id |-> NewId(hr_skill_level), name |-> level_match(it.level).name,
        level_progress |-> level_match(it.level).progress]
  ELSE [id |-> NewId(hr_skill_level), name |-> <<"Beginner">>,
        level_progress |-> 15]

\* steps 1 to 3 of an item with the type ty and the level lv found: the
\* tables after them, the ids, and whether the level was registered
TypeAndLevel(it, ty, lv) ==
  LET type_id == IF ty = 0 THEN NewId(hr_skill_type) ELSE ty
      types1 == IF ty = 0
                THEN hr_skill_type \cup
                     {[id |-> type_id, name |-> type_name_str(it),
                       skill_level_ids |-> {}]}
                ELSE hr_skill_type
      level_id == IF lv.id = 0 THEN NewLevel(it, lv).id ELSE lv.id
      levels1 == IF lv.id = 0 THEN hr_skill_level \cup {NewLevel(it, lv)}
                 ELSE hr_skill_level
      skill_type == CHOOSE t \in types1 : t.id = type_id
      registers == level_id \notin skill_type.skill_level_ids
  IN [type_id |-> type_id, level_id |-> level_id, registers |-> registers,
      types |-> {IF t.id = type_id
                 THEN [t EXCEPT !.skill_level_ids = @ \cup {level_id}]
                 ELSE t : t \in types1},
      levels |-> levels1]

\* step 4: the table of the skills after the skill s was found or created
SkillsAfter(it, s, type_id) ==
  IF s.how = "create"
  THEN hr_skill \cup {[id |-> NewId(hr_skill), name |-> it.skill,
                       skill_type_id |-> type_id]}
  ELSE IF s.how = "found"
  THEN {IF r.id = s.id THEN [r EXCEPT !.skill_type_id = type_id] ELSE r :
          r \in hr_skill}
  ELSE hr_skill

\* variant of step 5: the link is created without looking for one
LinkExistsNever(applicant_id, skill_id) == FALSE

\* 5. existing_link: a link of the applicant to the skill
LinkExists(applicant_id, skill_id) ==
  \E i \in 1..Len(hr_applicant_skill) :
    /\ hr_applicant_skill[i].applicant_id = applicant_id
    /\ hr_applicant_skill[i].skill_id = skill_id

\* variant of step 5: an existing link takes the level and type of the item
LinksAfterUpdating(links, link) ==
  IF ~LinkExists(link.applicant_id, link.skill_id)
  THEN Append(links, link)
  ELSE [i \in 1..Len(links) |->
          IF /\ links[i].applicant_id = link.applicant_id
             /\ links[i].skill_id = link.skill_id
          THEN link ELSE links[i]]

\* 5. if not existing_link: applicant_skill_env.create(...)
LinksAfter(links, link) ==
  IF ~LinkExists(link.applicant_id, link.skill_id)
  THEN Append(links, link)
  ELSE links

PartialSuccess == "skills_failed"
Success == "extracted"

\* variant: the exception of an item leaves what the step wrote
ItemFailsKeepingWrites(it, tl) ==
  /\ hr_skill_type' = tl.types
  /\ hr_skill_level' = tl.levels
  /\ UNCHANGED <<hr_skill, hr_applicant_skill>>
  /\ sk' = [sk EXCEPT !.pc = "return", !.n = @ + 1,
                      !.skill_status_message = PartialSuccess,
                      !.last = [NoResult EXCEPT !.item = it]]

\* variant: the exception of an item is raised to the caller of
\* _process_extracted_cv_data
ItemFailsRaised(it, tl) ==
  /\ hr_skill_type' = sk.savepoint.types
  /\ hr_skill_level' = sk.savepoint.levels
  /\ hr_skill' = sk.savepoint.skills
  /\ hr_applicant_skill' = sk.savepoint.links
  /\ sk' = [sk EXCEPT !.pc = "raised", !.n = @ + 1,
                      !.skill_status_message = PartialSuccess,
                      !.last = [NoResult EXCEPT !.item = it]]

\* except Exception as e_item: raise; the savepoint of step 2 of
\* _process_extracted_cv_data is rolled back and the message tells it
ItemFails(it, tl) ==
  /\ hr_skill_type' = sk.savepoint.types
  /\ hr_skill_level' = sk.savepoint.levels
  /\ hr_skill' = sk.savepoint.skills
  /\ hr_applicant_skill' = sk.savepoint.links
  /\ sk' = [sk EXCEPT !.pc = "return", !.n = @ + 1,
                      !.skill_status_message = PartialSuccess,
                      !.last = [NoResult EXCEPT !.item = it]]

\* variant of step 3: the level is written to the type whether it is
\* registered or not
RegistersAlways(tl) == TRUE

\* 3. Associate Level with Type: whether the write is issued
Registers(tl) == tl.registers

\* one iteration of the loop of _process_skills
ProcessSkillItem(it) ==
  /\ sk.pc = "skills"
  /\ sk.n < MaxItems
  /\ it \in SkillItems
  /\ UNCHANGED <<addon, parseVars, applicantVars, bulkVars, jdVars, matchVars,
                 response>>
  /\ IF it.skill = ""
     THEN /\ sk' = [sk EXCEPT !.n = @ + 1, !.last = NoResult]
          /\ UNCHANGED <<hr_skill_type, hr_skill_level, hr_skill,
                         hr_applicant_skill>>
     ELSE \E ty \in TypeChoices(it), lv \in ResolvedLevelChoices(it) :
       LET tl == TypeAndLevel(it, ty, lv)
       IN IF it.skill = NotAString
          THEN ItemFails(it, tl)
          ELSE \E s \in SkillChoices(it) :
            LET skill_id == IF s.id = 0 THEN NewId(hr_skill) ELSE s.id
                links == ~LinkExists(sk.applicant_id, skill_id)
            IN /\ hr_skill_type' = tl.types
               /\ hr_skill_level' = tl.levels
               /\ hr_skill' = SkillsAfter(it, s, tl.type_id)
               /\ hr_applicant_skill' =
                    LinksAfter(hr_applicant_skill,
                               [applicant_id |-> sk.applicant_id,
                                skill_id |-> skill_id,
                                skill_level_id |-> tl.level_id,
                                skill_type_id |-> tl.type_id])
               /\ sk' = [sk EXCEPT
                    !.n = @ + 1,
                    !.type_cache =
                       CachePut(@, Lower(type_name_str(it)), tl.type_id),
                    !.level_cache =
                       IF lv.how \in {"cache", "exact", "name", "create"}
                       THEN CachePut(@, LowerSeq(it.level), tl.level_id)
                       ELSE @,
                    !.skill_cache = CachePut(@, Lower(it.skill), skill_id),
                    !.default_level =
                       IF lv.how \in {"default_exact", "default_name",
                                      "default_lowest", "default_create"}
                       THEN tl.level_id ELSE @,
                    !.default_calls =
                       IF lv.how \in {"default_exact", "default_name",
                                      "default_lowest", "default_create"}
                       THEN @ + 1 ELSE @,
                    !.registrations =
                       IF Registers(tl)
                       THEN Append(@, <<tl.type_id, tl.level_id>>) ELSE @,
                    !.last = [item |-> it, type_id |-> tl.type_id,
                              level_id |-> tl.level_id, how |-> lv.how,
                              skill_id |-> skill_id,
                              registered |-> Registers(tl),
                              linked |-> links]]

\* ---- _process_extracted_cv_data and its callers
Callers == {"job", "bulk"}

\* The caller (_run_*_extraction_job, or an iteration of the bulk run, which
\* creates the applicant in state done) has the extracted data and calls
\* _process_extracted_cv_data: Transaction Step 1, the simple data, and the
\* test for skills to process.
WriteSimpleData(caller, data, installed, simple_ok) ==
  /\ sk.pc = "idle"
  /\ sk.passes < MaxPasses
  /\ caller \in Callers
  /\ data \in ExtractedData
  /\ installed \in BOOLEAN
  /\ simple_ok \in BOOLEAN
  /\ extract_state' = IF caller = "job" THEN "processing" ELSE "done"
  /\ extract_status' = IF caller = "job" THEN "parsing" ELSE "created"
  /\ simple_fields' =
       IF ~simple_ok THEN (IF caller = "job" THEN simple_fields ELSE <<>>)
       ELSE write_extracted_data(
              IF caller = "job" THEN simple_fields ELSE <<>>, data.simple)
  /\ sk' = [NoPass EXCEPT
       !.passes = sk.passes,
       !.caller = caller,
       !.applicant_id = IF caller = "job" THEN 1 ELSE sk.passes + 2,
       !.savepoint = CurrentTables,
       !.skill_status_message = Success,
       !.pc = IF ~simple_ok THEN "raised"
              ELSE IF data.skills = "list" /\ installed THEN "skills"
              ELSE "return"]
  /\ Background
  /\ UNCHANGED <<hr_skill_type, hr_skill_level, hr_skill,
                 hr_applicant_skill>>
  /\ UNCHANGED <<addon, parseVars, bulkVars, jdVars, matchVars,
                 message_main_attachment_id, cv_extract_mode, ajob, nextJob>>

\* the list is exhausted: _process_skills returns
SkillsDone ==
  /\ sk.pc = "skills"
  /\ sk.n >= 1
  /\ sk' = [sk EXCEPT !.pc = "return"]
  /\ UNCHANGED <<hr_skill_type, hr_skill_level, hr_skill,
                 hr_applicant_skill>>
  /\ UNCHANGED <<addon, parseVars, applicantVars, bulkVars, jdVars, matchVars,
                 response>>

\* _process_extracted_cv_data has returned its message or raised UserError:
\* the job writes state done and the message, the bulk run writes the
\* message, attaches the document and counts it; after UserError the job
\* writes the error state and the bulk run rolls the applicant back
CallerFinishes ==
  /\ sk.pc \in {"return", "raised"}
  /\ IF sk.pc = "return"
     THEN /\ extract_state' = "done"
          /\ extract_status' = sk.skill_status_message
          /\ UNCHANGED simple_fields
     ELSE /\ extract_state' = IF sk.caller = "job" THEN "error"
                              ELSE "no_extract"
          /\ extract_status' =
               IF sk.caller = "job"
               THEN ErrorStatus(Exc("write_simple_failed", <<>>))
               ELSE ""
          /\ UNCHANGED simple_fields
  /\ sk' = [NoPass EXCEPT !.passes = sk.passes + 1,
                          !.doc_processed =
                             sk.caller = "bulk" /\ sk.pc = "return"]
  /\ Background
  /\ UNCHANGED <<hr_skill_type, hr_skill_level, hr_skill,
                 hr_applicant_skill>>
  /\ UNCHANGED <<addon, parseVars, bulkVars, jdVars, matchVars,
                 message_main_attachment_id, cv_extract_mode, ajob, nextJob>>

\* the taxonomy the run finds: levels, and a type with skills, entered by
\* the users of hr_skills
InitSkills ==
  /\ addon \in {"openai", "gemini"}
  /\ BulkInit
  /\ ParseIdle
  /\ ApplicantInit
  /\ JdIdle
  /\ MatchIdle
  /\ \E c \in TaxonomyConfigs :
       /\ hr_skill_type = c.types
       /\ hr_skill_level = c.levels
       /\ hr_skill = c.skills
       /\ hr_applicant_skill = c.links
  /\ sk = NoPass

NextSkills ==
  \/ \E caller \in Callers, data \in ExtractedData, installed \in BOOLEAN,
        simple_ok \in BOOLEAN :
       WriteSimpleData(caller, data, installed, simple_ok)
  \/ \E it \in SkillItems : ProcessSkillItem(it)
  \/ SkillsDone
  \/ CallerFinishes

SpecSkills == InitSkills /\ [][NextSkills]_vars

\* ===================================== requirement extraction (OpenAI addon)
\* JDRequirement: what the service returns for one requirement
JDRequirement(name, weight, tag_name) ==
  [name |-> name, weight |-> weight, tag_name |-> tag_name]

\* the lists the service is made to return: none, tags in two spellings,
\* a requirement without a tag, the same requirement twice, a weight that
\* the constraint weight_positive refuses
RequirementLists ==
  { <<>>,
    <<JDRequirement("r1", 5, "Hard Skill")>>,
    <<JDRequirement("r1", 5, "hard skill")>>,
    <<JDRequirement("r1", 5, "Hard Skill"),
      JDRequirement("r2", 5, "hard skill")>>,
    <<JDRequirement("r2", 5, ""), JDRequirement("r1", 5, "Hard Skill")>>,
    <<JDRequirement("r1", 5, "Hard Skill"),
      JDRequirement("r1", 5, "Hard Skill")>>,
    <<JDRequirement("r1", 0, "Hard Skill")>> }

\* a hr.job.requirement record; sequence orders the statements of a posting
Requirement(id, name, weight, tag_ids, sequence) ==
  [id |-> id, name |-> name, weight |-> weight, tag_ids |-> tag_ids,
   sequence |-> sequence]

\* a statement a recruiter wrote by hand before any extraction
ManualRequirement == Requirement(1, "manual", 1, {}, 10)

\* _compute_jd_job_state and _compute_jd_processing_in_progress
jd_processing_in_progress ==
  /\ jd_queue_job_uuid # 0
  /\ jj[jd_queue_job_uuid].q \in {"pending", "enqueued", "started"}

\* some extraction's cursor has written the posting's row and not yet
\* committed: every other write of the row waits
JdLocked(me) == \E j \in JdJobs : j # me /\ jj[j].locked

\* the row of the posting was written and committed: the cursors that took
\* their snapshot before and have not written yet fail at their first write
JdStale(J, me) ==
  [j \in JdJobs |->
     IF j # me /\ J[j].pc = "begin" THEN [J[j] EXCEPT !.stale = TRUE]
     ELSE J[j]]

\* a recruiter adds a file to job_description_attachment_ids
UploadJobDescription ==
  /\ nextJdAtt <= MaxJdAtt
  /\ ~JdLocked(0)
  /\ job_description_attachment_ids' =
       job_description_attachment_ids \cup {nextJdAtt}
  /\ jdAtts' = jdAtts \cup {nextJdAtt}
  /\ nextJdAtt' = nextJdAtt + 1
  /\ jj' = JdStale(jj, 0)
  /\ response' = Resp("saved", 0)
  /\ UNCHANGED <<jd_processed_attachment_ids, jd_extract_state,
                 jd_extract_status, jd_queue_job_uuid, hr_job_requirement,
                 hr_job_requirement_tag, nextJd>>
  /\ UNCHANGED <<addon, parseVars, applicantVars, taxVars, matchVars, bulkVars>>

\* a UserError of a button: nothing is written
JdRejected(tag) ==
  /\ response' = Resp(tag, 0)
  /\ UNCHANGED <<addon, parseVars, applicantVars, taxVars, matchVars, bulkVars, jdVars>>

\* action_generate_requirements_from_file
ActionGenerateRequirementsFromFile ==
  IF job_description_attachment_ids = {}
  THEN JdRejected("upload_a_file_first")
  ELSE IF Cardinality(job_description_attachment_ids) > 1
  THEN JdRejected("only_one_file")
  ELSE IF jd_processing_in_progress
  THEN JdRejected("already_in_progress")
  ELSE
    LET attachment == CHOOSE a \in job_description_attachment_ids : TRUE
        reprocess == /\ attachment \in jd_processed_attachment_ids
                     /\ jd_extract_state # "error"
    IN /\ nextJd <= MaxJdJobs
       /\ ~JdLocked(0)
       /\ hr_job_requirement' =
            IF reprocess THEN <<>> ELSE hr_job_requirement
       /\ jd_extract_state' = "pending"
       /\ jd_extract_status' = "pending"
       /\ jd_processed_attachment_ids' = {}
       /\ jj' = [JdStale(jj, 0) EXCEPT ![nextJd] =
                   [NoJdJob EXCEPT
                      !.q = "pending",
                      !.attachment_id = attachment,
                      !.unlinked = IF reprocess THEN hr_job_requirement
                                   ELSE <<>>]]
       /\ jd_queue_job_uuid' = nextJd
       /\ nextJd' = nextJd + 1
       /\ response' = Resp("processing_started", 1)
       /\ UNCHANGED <<job_description_attachment_ids,
                      hr_job_requirement_tag, jdAtts, nextJdAtt>>
       /\ UNCHANGED <<addon, parseVars, applicantVars, taxVars, matchVars, bulkVars>>

\* action_delete_jd_attachment: the requirements are kept
ActionDeleteJdAttachment ==
  LET attachments ==
        job_description_attachment_ids \cup jd_processed_attachment_ids
  IN /\ ~JdLocked(0)
     /\ job_description_attachment_ids' = {}
     /\ jd_processed_attachment_ids' = {}
     /\ jd_extract_state' = "no_extract"
     /\ jd_extract_status' = ""
     /\ jd_queue_job_uuid' = 0
     /\ jdAtts' = jdAtts \ attachments
     /\ jj' = JdStale(jj, 0)
     /\ response' = Resp("file_deleted", Cardinality(attachments))
     /\ UNCHANGED <<hr_job_requirement, hr_job_requirement_tag, nextJdAtt,
                    nextJd>>
     /\ UNCHANGED <<addon, parseVars, applicantVars, taxVars, matchVars, bulkVars>>

\* action_clear_job_requirements
ActionClearJobRequirements ==
  LET count == Len(hr_job_requirement)
  IN /\ ~JdLocked(0)
     /\ hr_job_requirement' = <<>>
     /\ jd_extract_state' = "no_extract"
     /\ jd_extract_status' = ""
     /\ jj' = JdStale(jj, 0)
     /\ response' = Resp("requirements_cleared", count)
     /\ UNCHANGED <<job_description_attachment_ids,
                    jd_processed_attachment_ids, jd_queue_job_uuid,
                    hr_job_requirement_tag, jdAtts, nextJdAtt, nextJd>>
     /\ UNCHANGED <<addon, parseVars, applicantVars, taxVars, matchVars, bulkVars>>

\* what is committed of the posting, as a cursor's snapshot
JdCommitted ==
  JdView(jd_extract_state, jd_extract_status, jd_queue_job_uuid,
         jd_processed_attachment_ids, hr_job_requirement,
         hr_job_requirement_tag, jdAtts)

\* the commit of a cursor: its view becomes the committed values
JdPublish(v) ==
  /\ jd_extract_state' = v.state
  /\ jd_extract_status' = v.status
  /\ jd_queue_job_uuid' = v.uuid
  /\ jd_processed_attachment_ids' = v.processed
  /\ hr_job_requirement' = v.statements
  /\ hr_job_requirement_tag' = v.tags

\* what no step of the extraction job changes
JdJobFrame ==
  /\ UNCHANGED <<job_description_attachment_ids, jdAtts, nextJdAtt, nextJd>>
  /\ UNCHANGED <<addon, parseVars, applicantVars, taxVars, matchVars, bulkVars,
                 response>>

JdUnpublished ==
  UNCHANGED <<jd_extract_state, jd_extract_status, jd_queue_job_uuid,
              jd_processed_attachment_ids, hr_job_requirement,
              hr_job_requirement_tag>>

\* the job runner starts the method: the cursor's snapshot is taken
JdJobStart(j) ==
  /\ jj[j].q = "pending"
  /\ jj' = [jj EXCEPT ![j].q = "started", ![j].pc = "begin",
                      ![j].view = JdCommitted]
  /\ JdUnpublished
  /\ JdJobFrame

\* _run_jd_extraction_job up to the call of the service: the file is looked
\* up and the first write of the posting's row is made; the write fails
\* when the row was changed since the snapshot
JdBegin(j) ==
  /\ jj[j].pc = "begin"
  /\ ~JdLocked(j)
  /\ jj' = [jj EXCEPT ![j] =
       IF jj[j].attachment_id \notin jj[j].view.atts
       THEN IF jj[j].stale
            THEN [@ EXCEPT !.pc = "raised", !.e = "concurrent_update"]
            ELSE [@ EXCEPT !.pc = "returned", !.locked = TRUE,
                           !.view.state = "error",
                           !.view.status = "file_deleted",
                           !.view.uuid = 0]
       ELSE IF jj[j].stale
            THEN [@ EXCEPT !.pc = "except", !.e = "concurrent_update"]
            ELSE [@ EXCEPT !.pc = "call", !.locked = TRUE,
                           !.view.state = "processing",
                           !.view.status = "calling"]]
  /\ JdUnpublished
  /\ JdJobFrame

\* _execute_jd_extract_single: an exception of _openai_call is raised again,
\* an answer without requirements is the empty list
JdCall(j, c, o, data) ==
  /\ jj[j].pc = "call"
  /\ o \in openai_call(c)
  /\ jj' = [jj EXCEPT ![j] =
       IF o = "answer"
       THEN [@ EXCEPT !.pc = "process", !.data = data]
       ELSE [@ EXCEPT !.pc = "except", !.e = o]]
  /\ JdUnpublished
  /\ JdJobFrame

\* what _openai_call does for a requirement extraction
JdOutcomes == {"no_api_key", "no_model", "service_error", "answer"}

\* the names list(set(...)) keeps: every non-empty tag_name, once per spelling
tag_names(data) == {data[i].tag_name : i \in 1..Len(data)} \ {""}

\* a dict built from tags keyed by lower-cased name: of two tags with one
\* key the one that comes later stays, and the order of a set is arbitrary
TagCaches(tags) ==
  LET keys == {Lower(t.name) : t \in tags}
  IN { f \in [keys -> {t.id : t \in tags}] :
         \A k \in keys : \E t \in tags : Lower(t.name) = k /\ t.id = f[k] }

\* ReqTag.create(new_tags_to_create): the records get the next ids in the
\* order of the list, which is the arbitrary order of a set
CreatedTags(tags, names) ==
  LET n == NewId(tags)
      ids == n .. (n + Cardinality(names) - 1)
  IN { {[id |-> f[name], name |-> name] : name \in names} :
         f \in {g \in [names -> ids] :
                  \A a, b \in names : g[a] = g[b] => a = b} }

\* ReqTag.search([('name', 'in', tag_names)]): the operator in compares the
\* names as they are spelled
ExistingTags(tags, names) == {t \in tags : t.name \in names}

\* the statements Req.create makes of the list, for a tag cache
NewRequirements(j, data, cache) ==
  [i \in 1..Len(data) |->
     Requirement(10 * j + i, data[i].name, data[i].weight,
                 IF data[i].tag_name # ""
                 THEN {cache[Lower(data[i].tag_name)]}
                 ELSE {},
                 i * 10)]

\* variant: the writer that keeps the statements of the posting
StatementsAfterKeepingOld(old, new) == old \o new

\* requirement_statement_ids.unlink() and Req.create(new_req_vals_list)
StatementsAfter(old, new) == new

\* _process_jd_extract_data from the unlink on: the outcomes [statements,
\* tags] it can produce for the tags and statements its cursor sees
ProcessOutcomes(j, data, statements, tags) ==
  LET names == tag_names(data)
      existing_tags == ExistingTags(tags, names)
  IN UNION {
       LET new == {n \in names : Lower(n) \notin DOMAIN tag_cache}
       IN UNION {
            { [statements |->
                 StatementsAfter(statements,
                   NewRequirements(j, data,
                     [k \in DOMAIN tag_cache \cup DOMAIN created_cache |->
                        IF k \in DOMAIN created_cache THEN created_cache[k]
                        ELSE tag_cache[k]])),
               tags |-> tags \cup new_tags] :
              created_cache \in TagCaches(new_tags) } :
            new_tags \in CreatedTags(tags, new) } :
       tag_cache \in TagCaches(existing_tags) }

\* variant: the writer that accepts an empty list
RefusesNever(data) == FALSE

\* "AI processing returned no requirements."
RefusesEmpty(data) == data = <<>>

\* the constraint weight_positive: CHECK(weight > 0)
weight_positive(data) == \A i \in 1..Len(data) : data[i].weight > 0

\* _process_jd_extract_data in its savepoint, then the write of the state
\* done with the file as the one processed attachment
JdProcess(j) ==
  /\ jj[j].pc = "process"
  /\ LET data == jj[j].data
         v == jj[j].view
     IN IF RefusesEmpty(data)
        THEN jj' = [jj EXCEPT ![j].pc = "except",
                              ![j].e = "no_requirements"]
        ELSE IF ~weight_positive(data)
        THEN jj' = [jj EXCEPT ![j].pc = "except",
                              ![j].e = "weight_positive"]
        ELSE \E out \in ProcessOutcomes(j, data, v.statements, v.tags) :
               jj' = [jj EXCEPT
                 ![j].pc = "finally",
                 ![j].success = TRUE,
                 ![j].view = [v EXCEPT !.statements = out.statements,
                                       !.tags = out.tags,
                                       !.state = "done",
                                       !.status = <<"generated", Len(data)>>,
                                       !.processed = {jj[j].attachment_id}]]
  /\ JdUnpublished
  /\ JdJobFrame

\* the except clause: rollback, the error state, commit
JdHandleError(j) ==
  /\ jj[j].pc = "except"
  /\ ~JdLocked(j)
  /\ jd_extract_state' = "error"
  /\ jd_extract_status' = ErrorStatus(jj[j].e)
  /\ jj' = [JdStale(jj, j) EXCEPT
       ![j].pc = "finally", ![j].success = FALSE,
       ![j].error_message = jj[j].e, ![j].locked = FALSE,
       ![j].stale = FALSE]
  /\ UNCHANGED <<jd_queue_job_uuid, jd_processed_attachment_ids,
                 hr_job_requirement, hr_job_requirement_tag>>
  /\ JdJobFrame

\* the finally clause: jd_queue_job_uuid is cleared and the user notified
JdFinally(j) ==
  /\ jj[j].pc = "finally"
  /\ ~JdLocked(j)
  /\ jj' = [jj EXCEPT
       ![j].pc = "returned",
       ![j].locked = TRUE,
       ![j].view = [(IF jj[j].success THEN jj[j].view ELSE JdCommitted)
                      EXCEPT !.uuid = 0],
       ![j].sent = Append(@,
          IF jj[j].success
          THEN [title |-> "Requirements Generated", type |-> "success"]
          ELSE [title |-> "Requirement Generation Failed",
                type |-> "warning"])]
  /\ JdUnpublished
  /\ JdJobFrame

\* the job runner commits the cursor of a method that returned
JdJobDone(j) ==
  /\ jj[j].pc = "returned"
  /\ JdPublish(jj[j].view)
  /\ jj' = [JdStale(jj, j) EXCEPT ![j].pc = "done", ![j].q = "done",
                                  ![j].locked = FALSE]
  /\ JdJobFrame

\* the job runner rolls back the cursor of a method that raised
JdJobFailed(j) ==
  /\ jj[j].pc = "raised"
  /\ jj' = [jj EXCEPT ![j].pc = "failed", ![j].q = "failed"]
  /\ JdUnpublished
  /\ JdJobFrame

\* the posting before its first extraction: with or without a statement
\* written by hand and a tag created by hand
InitJd ==
  /\ addon = "openai"
  /\ BulkInit
  /\ ParseIdle
  /\ ApplicantInit
  /\ TaxIdle
  /\ job_description_attachment_ids = {}
  /\ jd_processed_attachment_ids = {}
  /\ jd_extract_state = "no_extract"
  /\ jd_extract_status = ""
  /\ jd_queue_job_uuid = 0
  /\ hr_job_requirement \in {<<>>, <<ManualRequirement>>}
  /\ hr_job_requirement_tag \in {{}, {[id |-> 1, name |-> "Hard Skill"]}}
  /\ jdAtts = {}
  /\ nextJdAtt = 1
  /\ jj = [j \in JdJobs |-> NoJdJob]
  /\ nextJd = 1
  /\ MatchIdle

NextJd ==
  \/ UploadJobDescription
  \/ ActionGenerateRequirementsFromFile
  \/ ActionDeleteJdAttachment
  \/ ActionClearJobRequirements
  \/ \E j \in JdJobs : JdJobStart(j)
  \/ \E j \in JdJobs : JdBegin(j)
  \/ \E j \in JdJobs, c \in Companies, o \in JdOutcomes,
        data \in RequirementLists : JdCall(j, c, o, data)
  \/ \E j \in JdJobs : JdProcess(j)
  \/ \E j \in JdJobs : JdHandleError(j)
  \/ \E j \in JdJobs : JdFinally(j)
  \/ \E j \in JdJobs : JdJobDone(j)
  \/ \E j \in JdJobs : JdJobFailed(j)

SpecJd == InitJd /\ [][NextJd]_vars

\* ================================== match statements and the aggregate score
\* the selection of match_fit
MatchFits == {"not_fit", "poor_fit", "fit", "good_fit", "excellent_fit"}

\* variant: a score map that gives the lowest category the score of the next
compute_match_score_floor25(match_fit) ==
  CASE match_fit = "not_fit" -> 25
    [] match_fit = "poor_fit" -> 25
    [] match_fit = "fit" -> 50
    [] match_fit = "good_fit" -> 80
    [] match_fit = "excellent_fit" -> 100
    [] OTHER -> 0

\* _compute_match_score: score_map_default.get(record.match_fit, 0.0)
compute_match_score(match_fit) ==
  CASE match_fit = "not_fit" -> 0
    [] match_fit = "poor_fit" -> 25
    [] match_fit = "fit" -> 50
    [] match_fit = "good_fit" -> 80
    [] match_fit = "excellent_fit" -> 100
    [] OTHER -> 0

\* a hr.applicant.match.statement record as create() leaves it: the stored
\* computed field match_score is computed from match_fit
MatchStatement(requirement_id, match_fit) ==
  [requirement_id |-> requirement_id, match_fit |-> match_fit,
   match_score |-> compute_match_score(match_fit)]

\* requirement_weight, related to requirement_id.weight (0 when the
\* requirement is gone)
requirement_weight(reqs, id) ==
  IF \E i \in 1..Len(reqs) : reqs[i].id = id
  THEN reqs[CHOOSE i \in 1..Len(reqs) : reqs[i].id = id].weight
  ELSE 0

RequirementExists(reqs, id) == \E i \in 1..Len(reqs) : reqs[i].id = id

RECURSIVE Gcd(_, _)
Gcd(a, b) == IF b = 0 THEN a ELSE Gcd(b, a % b)

\* the fraction n / d in lowest terms
Ratio(n, d) == <<n \div Gcd(n, d), d \div Gcd(n, d)>>

\* the two sums of the aggregate, taken statement by statement in the
\* order the statements are read: <<sum of score * weight, sum of weight>>
RECURSIVE WeightedSums(_, _)
WeightedSums(stmts, reqs) ==
  IF stmts = <<>> THEN <<0, 0>>
  ELSE LET st == Head(stmts)
           rest == WeightedSums(Tail(stmts), reqs)
           w == requirement_weight(reqs, st.requirement_id)
       IN IF RequirementExists(reqs, st.requirement_id)
          THEN <<st.match_score * w + rest[1], w + rest[2]>>
          ELSE rest

\* the aggregate match percentage: sum(score_i / 100 * weight_i) /
\* sum(weight_i) * 100 over the statements whose requirement exists; zero
\* when the total weight is zero
aggregate_percent(stmts, reqs) ==
  LET sums == WeightedSums(stmts, reqs)
  IN IF sums[2] = 0 THEN <<0, 1>> ELSE Ratio(sums[1], sums[2])

\* the requirement that no statement refers to
StaleId == 99

\* the weights a requirement is given
Weights == {1, 3}

\* the postings that are matched: up to MaxReqs requirements
MatchedPostings ==
  UNION { { [i \in 1..n |-> Requirement(10 + i, "r", w[i], {}, i * 10)] :
            w \in [1..n -> Weights] } : n \in 0..MaxReqs }

\* what the service says of one requirement
FitStatement(requirement_id, match_fit) ==
  [requirement_id |-> requirement_id, match_fit |-> match_fit]

\* the answers of a match run: fit statements for requirements of the
\* posting, in any order, possibly one for a requirement that is gone
MatchAnswers(reqs) ==
  LET ids == {reqs[i].id : i \in 1..Len(reqs)} \cup {StaleId}
  IN UNION { { a \in [1..n -> [requirement_id : ids, match_fit : MatchFits]] :
                 \A i, k \in 1..n :
                   a[i].requirement_id = a[k].requirement_id => i = k } :
             n \in 0..MaxReqs }

\* what no step of the matching changes
MatchFrame ==
  /\ UNCHANGED <<job_description_attachment_ids, jd_processed_attachment_ids,
                 jd_extract_state, jd_extract_status, jd_queue_job_uuid,
                 hr_job_requirement_tag, jdAtts, nextJdAtt, jj, nextJd>>
  /\ UNCHANGED <<addon, parseVars, applicantVars, taxVars, bulkVars>>

RECURSIVE KeepLive(_, _)
KeepLive(answer, reqs) ==
  IF answer = <<>> THEN <<>>
  ELSE IF RequirementExists(reqs, Head(answer).requirement_id)
  THEN <<MatchStatement(Head(answer).requirement_id,
                        Head(answer).match_fit)>>
         \o KeepLive(Tail(answer), reqs)
  ELSE KeepLive(Tail(answer), reqs)

\* a match run: the statements of the applicant are deleted and made anew
\* from the answer, statements for a requirement that is gone are dropped
RunAiMatch(answer) ==
  /\ hr_applicant_match_statement' = KeepLive(answer, hr_job_requirement)
  /\ match_percent' =
       aggregate_percent(hr_applicant_match_statement', hr_job_requirement)
  /\ response' = Resp("matched", Len(hr_applicant_match_statement'))
  /\ UNCHANGED hr_job_requirement
  /\ MatchFrame

\* variant: a write of match_fit that leaves the stored score alone
WriteMatchFitKeepingScore(i, match_fit) ==
  /\ i \in 1..Len(hr_applicant_match_statement)
  /\ match_fit # hr_applicant_match_statement[i].match_fit
  /\ hr_applicant_match_statement' =
       [hr_applicant_match_statement EXCEPT ![i].match_fit = match_fit]
  /\ match_percent' =
       aggregate_percent(hr_applicant_match_statement', hr_job_requirement)
  /\ response' = Resp("fit_written", i)
  /\ UNCHANGED hr_job_requirement
  /\ MatchFrame

\* a recruiter changes the fit of a statement: @api.depends('match_fit')
\* recomputes match_score
WriteMatchFit(i, match_fit) ==
  /\ i \in 1..Len(hr_applicant_match_statement)
  /\ match_fit # hr_applicant_match_statement[i].match_fit
  /\ hr_applicant_match_statement' =
       [hr_applicant_match_statement EXCEPT
          ![i].match_fit = match_fit,
          ![i].match_score = compute_match_score(match_fit)]
  /\ match_percent' =
       aggregate_percent(hr_applicant_match_statement', hr_job_requirement)
  /\ response' = Resp("fit_written", i)
  /\ UNCHANGED hr_job_requirement
  /\ MatchFrame

\* a recruiter changes the weight of a requirement; the constraint
\* weight_positive refuses a weight that is not positive
WriteWeight(i, w) ==
  /\ i \in 1..Len(hr_job_requirement)
  /\ w # hr_job_requirement[i].weight
  /\ IF w > 0
     THEN /\ hr_job_requirement' = [hr_job_requirement EXCEPT ![i].weight = w]
          /\ match_percent' =
               aggregate_percent(hr_applicant_match_statement,
                                 hr_job_requirement')
          /\ response' = Resp("weight_written", i)
     ELSE /\ response' = Resp("weight_positive", 0)
          /\ UNCHANGED <<hr_job_requirement, match_percent>>
  /\ UNCHANGED hr_applicant_match_statement
  /\ MatchFrame

\* a requirement is deleted: requirement_id has ondelete='cascade', the
\* statements that refer to it go with it
UnlinkRequirement(i) ==
  /\ i \in 1..Len(hr_job_requirement)
  /\ hr_job_requirement' =
       SubSeq(hr_job_requirement, 1, i - 1)
         \o SubSeq(hr_job_requirement, i + 1, Len(hr_job_requirement))
  /\ hr_applicant_match_statement' =
       SelectSeq(hr_applicant_match_statement,
                 LAMBDA st : st.requirement_id # hr_job_requirement[i].id)
  /\ match_percent' =
       aggregate_percent(hr_applicant_match_statement', hr_job_requirement')
  /\ response' = Resp("requirement_deleted", i)
  /\ MatchFrame

InitMatch ==
  /\ addon = "openai"
  /\ BulkInit
  /\ ParseIdle
  /\ ApplicantInit
  /\ TaxIdle
  /\ job_description_attachment_ids = {}
  /\ jd_processed_attachment_ids = {}
  /\ jd_extract_state = "no_extract"
  /\ jd_extract_status = ""
  /\ jd_queue_job_uuid = 0
  /\ hr_job_requirement \in MatchedPostings
  /\ hr_job_requirement_tag = {}
  /\ jdAtts = {}
  /\ nextJdAtt = 1
  /\ jj = [j \in JdJobs |-> NoJdJob]
  /\ nextJd = 1
  /\ MatchIdle

NextMatch ==
  \/ \E answer \in MatchAnswers(hr_job_requirement) : RunAiMatch(answer)
  \/ \E i \in 1..MaxReqs, f \in MatchFits : WriteMatchFit(i, f)
  \/ \E i \in 1..MaxReqs, w \in Weights \cup {0} : WriteWeight(i, w)
  \/ \E i \in 1..MaxReqs : UnlinkRequirement(i)

SpecMatch == InitMatch /\ [][NextMatch]_vars

\* =================================================================== claims
\* a run of the job posting that is pending or whose method is executing
Executing(r) ==
  \/ qstate[r] = "pending"
  \/ qstate[r] = "started" /\ th[r].pc \notin {"returned", "raised"}

\* C1: in the OpenAI orchestrator processed_cv_count + failed_cv_count never
\* exceeds total_cv_count, in any reachable state, whatever the interleaving
\* of start requests, counter updates of the run and delete-attachments.
C1_CountersWithinTotal ==
  addon = "openai" => processed_cv_count + failed_cv_count <= total_cv_count

\* C2: in the OpenAI orchestrator, whenever the job posting is finalized
\* (bulk_processing_complete set), processed_cv_count + failed_cv_count
\* equals total_cv_count.
C2_CountersAddUpAtCompletion ==
  (addon = "openai" /\ bulk_processing_complete)
     => processed_cv_count + failed_cv_count = total_cv_count

\* C3: within one bulk run the documents are attempted in the sequence of
\* the to-process set, each at most once, and when the run ends (its method
\* returned or raised) every document of the set was attempted: no failure
\* of a document kept a later one from being attempted.
C3_EveryDocAttemptedOnce ==
  \A r \in Runs :
    /\ \E n \in 0..Len(qargs[r]) : th[r].attempted = SubSeq(qargs[r], 1, n)
    /\ th[r].pc \in {"returned", "raised"} => th[r].attempted = qargs[r]

StartTags ==
  {"started", "err_locked", "err_in_progress", "err_no_attachments",
   "err_all_processed"}

\* C5: a start request issued while a run of the job posting is pending or
\* executing is rejected with a user error, enqueues nothing and changes no
\* counter, flag or document set.
C5_StartRejectedWhileRunActive ==
  [][((\E r \in Runs : Executing(r)) /\ response'.tag \in StartTags)
       => /\ response'.tag # "started"
          /\ UNCHANGED <<jobVars, attVars, queueVars, profiles>>]_vars

\* C6: in the OpenAI orchestrator, as long as no delete-attachments action
\* removed a document (every document ever attached still exists), each
\* document has a profile created from it at most once.
C6_ProfileCreatedAtMostOnce ==
  (addon = "openai" /\ attExists = 1..(nextAtt - 1))
     => \A a \in Atts : profiles[a] <= 1

\* C7: an accepted start request hands the run exactly the attachments
\* that are not in the already-processed set, in the recordset's order, and
\* the OpenAI orchestrator sets total_cv_count to their number; when every
\* attached document is already processed the request is rejected, nothing
\* is enqueued and no counter, flag, document set or profile changes.
C7_StartHandsSetDifference ==
  [][/\ response'.tag = "started"
          => /\ nextRun' = nextRun + 1
             /\ qstate'[nextRun] = "pending"
             /\ qargs'[nextRun] =
                   IdsOf(cv_attachment_ids \ processed_cv_attachment_ids)
             /\ \A r \in Runs \ {nextRun} :
                   qstate'[r] = qstate[r] /\ qargs'[r] = qargs[r]
             /\ response'.count =
                   Cardinality(cv_attachment_ids \ processed_cv_attachment_ids)
             /\ addon = "openai" => total_cv_count' = response'.count
     /\ (response'.tag \in StartTags
           /\ cv_attachment_ids \subseteq processed_cv_attachment_ids)
          => /\ response'.tag # "started"
             /\ UNCHANGED <<jobVars, attVars, queueVars, profiles, th>>]_vars

\* C7 case: a run was handed one of two attached documents, the other
\* being processed already, and the next request found all processed
C7_Witness ==
  /\ response.tag = "err_all_processed"
  /\ Cardinality(cv_attachment_ids) = 2
  /\ \E r \in Runs : qstate[r] # "none" /\ Len(qargs[r]) = 1

\* titles of the notifications a run delivered, in order
Titles(r) == [i \in 1..Len(th[r].sent) |-> th[r].sent[i].title]

C9_RunEndsComplete ==
  [][\A r \in Runs :
       /\ (addon = "openai" /\ th[r].pc # th'[r].pc
             /\ th'[r].pc \in {"returned", "raised"})
            => /\ bulk_processing_complete'
               /\ ~bulk_processing_in_progress'
               /\ bulk_processing_failed' = (th[r].fail_count > 0)
       /\ (addon = "gemini" /\ qstate[r] = "started"
             /\ qstate'[r] \in {"done", "failed"})
            => /\ processing_complete'
               /\ ~processing_in_progress'
               /\ processing_failed' =
                     (th[r].fail_count > 0 \/ th[r].critical_error)]_vars

\* C10: with the API key or the model missing, a bulk run aborts before any
\* document is attempted: no run holds a configuration error as the error
\* of a document it began, nor counts it as a document's failure.
C10_ConfigErrorAbortsRun ==
  \A r \in Runs :
    th[r].error_msg \in {"no_api_key", "no_model"}
      => th[r].attempted = <<>> /\ th[r].fail_count = 0 /\ th[r].errors = <<>>

\* C11: in the OpenAI orchestrator a start request that finds the row of the
\* job posting locked by another transaction is not made to wait: it is
\* answered at once, with the user error of the lock, and it enqueues
\* nothing and changes nothing.
C11_LockedStartFailsAtOnce ==
  [][(addon = "openai" /\ rowLock # 0)
       => /\ ENABLED OpenAIActionProcessCvs
          /\ response'.tag \in StartTags
               => /\ response'.tag = "err_locked"
                  /\ UNCHANGED <<jobVars, attVars, queueVars, profiles, th,
                                 rowLock>>]_vars

\* a start request was refused for the lock that a run's counter update holds
C11_Witness ==
  /\ addon = "openai"
  /\ response.tag = "err_locked"
  /\ rowLock # 0
  /\ th[rowLock].pc = "stats_locked"
  /\ qstate = [r \in Runs |-> IF r = rowLock THEN "started" ELSE "none"]

\* C12: in the OpenAI orchestrator the exclusive lock on the row of the job
\* posting is held only inside a transaction that updates the row (the
\* counter update of one document, the final write): the run that holds it
\* has no call of the external service in flight, a run whose call is in
\* flight holds no lock, and the lock taken for a counter update is
\* released by that run's next step, the commit of the counter update.
C12_LockOnlyForCounterUpdate ==
  [][addon = "openai"
       => /\ rowLock # 0
               => th[rowLock].pc \in {"stats_locked", "finalize_locked"}
          /\ \A r \in Runs :
               /\ th[r].pc = "call" => rowLock # r
               /\ (th[r].pc = "stats_locked" /\ th'[r] # th[r])
                    => /\ rowLock = r
                       /\ rowLock' = 0
                       /\ th'[r].pc \in {"loop", "notify"}]_vars

\* a run holds the lock for the counter update of its first document, whose
\* call of the service succeeded, and has one more document to call for
C12_Witness ==
  /\ addon = "openai"
  /\ rowLock # 0
  /\ th[rowLock].pc = "stats_locked"
  /\ th[rowLock].applicant_id # 0
  /\ th[rowLock].idx = 1
  /\ Len(qargs[rowLock]) = 2

\* C13: in the OpenAI orchestrator, once a run has handled its k-th document
\* and before it starts the next one (or, after the last one, before it
\* notifies), the committed counters that a concurrent reader of the job
\* posting sees satisfy processed_cv_count + failed_cv_count = k.
C13_CountersShowDocsHandled ==
  addon = "openai"
    => \A r \in Runs :
         (qstate[r] = "started" /\ th[r].pc \in {"loop", "notify"})
           => processed_cv_count + failed_cv_count = th[r].idx - 1

\* the complete flag of the job posting, in the addon that is installed
CompleteFlag ==
  IF addon = "openai" THEN bulk_processing_complete ELSE processing_complete

\* the in-progress flag that action_process_cvs reads
InProgressFlag ==
  IF addon = "openai" THEN bulk_processing_in_progress
  ELSE processing_in_progress

ProfilesCreatedBy(r) ==
  IF addon = "openai" THEN Len(th[r].attempted) - Len(th[r].errors)
  ELSE Len(th[r].successful_ids)

\* C15: the notification that summarizes the extraction of a run has type
\* success exactly when no document of the run failed (warning otherwise),
\* and the created and failed counts it states are the number of profiles
\* the run created and the number of its documents that failed.
C15_NotificationTellsOutcome ==
  \A r \in Runs :
    th[r].sent # <<>>
      => LET n == th[r].sent[1]
         IN /\ n.type \in {"success", "warning"}
            /\ n.type = "success"
                 <=> (th[r].fail_count = 0 /\ ~th[r].critical_error)
            /\ n.succeeded = ProfilesCreatedBy(r)
            /\ n.failed = th[r].fail_count

\* the failed flag of the job posting, in the addon that is installed
FailedFlag ==
  IF addon = "openai" THEN bulk_processing_failed ELSE processing_failed

\* C16: the delete-attachments action removes every attached document
\* record (and no other), empties the set of documents and the
\* already-processed set, resets the in-progress, complete and failed flags
\* and, in the OpenAI addon, the run identifier and the three counters; the
\* count it reports is the number of documents attached before the call.
C16_DeleteResetsEverything ==
  [][response'.tag = "deleted"
       => /\ attExists' \cap cv_attachment_ids = {}
          /\ attExists \ (cv_attachment_ids \cup processed_cv_attachment_ids)
               \subseteq attExists'
          /\ cv_attachment_ids' = {}
          /\ processed_cv_attachment_ids' = {}
          /\ ~InProgressFlag'
          /\ ~CompleteFlag'
          /\ ~FailedFlag'
          /\ addon = "openai"
               => /\ bulk_queue_job_uuid' = 0
                  /\ processed_cv_count' = 0
                  /\ failed_cv_count' = 0
                  /\ total_cv_count' = 0
          /\ response'.count = Cardinality(cv_attachment_ids)]_vars

\* two documents were attached, a run was started for them and finished
\* its first document, and the delete request removed both and said so
C16_Witness ==
  /\ response = Resp("deleted", 2)
  /\ attExists = {}
  /\ cv_attachment_ids = {}
  /\ processed_cv_attachment_ids = {}
  /\ ~InProgressFlag
  /\ \E r \in Runs : qstate[r] = "started" /\ th[r].idx = 2

\* the strategies of the normalizer, each taken alone on the whole text
ParseDirect(t) == json_loads(t)
ParseFenced(t) ==
  IF fence_match(t).found THEN json_loads(Strip(fence_match(t).group))
  ELSE JSONDecodeError
ParseBraceSpan(t) ==
  IF brace_match(t).found THEN json_loads(Strip(brace_match(t).group))
  ELSE JSONDecodeError

\* C17: the normalizer tries direct parse, fenced-block parse and
\* brace-span parse in this order, moves on to the next strategy whenever
\* one fails, returns the value of the first that succeeds, and raises the
\* unparsable-response error, carrying the raw text, only when all three
\* fail.
C17_FirstSuccessOfThree ==
  parsed # NotParsed
    => parsed =
         IF ParseDirect(response_text) # JSONDecodeError
         THEN ParseDirect(response_text)
         ELSE IF ParseFenced(response_text) # JSONDecodeError
         THEN ParseFenced(response_text)
         ELSE IF ParseBraceSpan(response_text) # JSONDecodeError
         THEN ParseBraceSpan(response_text)
         ELSE InvalidResponse(response_text)

\* conversational wrapper text: words and blanks
IsProse(p) == \A i \in 1..Len(p) : p[i] \in {"w", " "}

\* C18: for every structured value v and every document d of it, the
\* normalizer returns v for d given directly, for d wrapped in a fenced
\* block and for d embedded as a brace span inside prose; a text no part of
\* which is a document raises the unparsable-response error with the text.
C18_RoundTrip ==
  parsed # NotParsed
    => LET t == response_text
           n == Len(t)
       IN /\ json_loads(t) # JSONDecodeError => parsed = json_loads(t)
          /\ \A i \in 1..n, j \in 1..n :
               (/\ i <= j
                /\ json_loads(SubSeq(t, i, j)) # JSONDecodeError
                /\ IsProse(SubSeq(t, 1, i - 1))
                /\ IsProse(SubSeq(t, j + 1, n)))
                 => parsed = json_loads(SubSeq(t, i, j))
          /\ \A i \in 1..n, j \in 1..n :
               (/\ i + 1 < j
                /\ t[i] = "F"
                /\ t[j] = "E"
                /\ json_loads(SubSeq(t, i + 1, j - 1)) # JSONDecodeError
                /\ IsProse(SubSeq(t, 1, i - 1))
                /\ IsProse(SubSeq(t, j + 1, n)))
                 => parsed = json_loads(SubSeq(t, i + 1, j - 1))
          /\ (\A i \in 1..n, j \in 1..n :
                 json_loads(SubSeq(t, i, j)) = JSONDecodeError)
               => parsed = InvalidResponse(t)

\* a nested object embedded in prose came back as its value
C18_Witness ==
  /\ response_text = <<"w", "{", "k", "{", "}", "}">>
  /\ parsed = [kind |-> "value", value |-> <<"{", "k", "{", "}", "}">>]

\* an extraction of the applicant that is queued or whose job has not
\* finished writing: pending, or in its try block, or done but uncommitted
LiveExtraction(j) == ajob[j].pc = "pending" \/ ajob[j].pc = "begin" \/ HoldsRow(j)

\* the edges of the extraction state
StateEdges ==
  {<<"no_extract", "pending">>, <<"error", "pending">>,
   <<"done", "pending">>, <<"pending", "processing">>,
   <<"processing", "done">>, <<"processing", "error">>}

\* C19: the extraction state of an applicant changes only along
\* no_extract/error/done -> pending -> processing -> {done, error}: each
\* write of the state, by the button or by the job in its environment,
\* follows one edge, and what a commit publishes is the end of such a path
\* from the committed state.  A request is accepted only with the state in
\* no_extract, error or done, manual mode and a main attachment; so at most
\* one extraction of the applicant is queued or running, and whenever a job
\* holds the state processing the committed state is pending and no other
\* job is queued or running.
C19_StateMachine ==
  [][/\ \A j \in Jobs :
          (ajob'[j].state # ajob[j].state /\ ajob'[j].state # "")
            => \/ ajob[j].state = "" /\ ajob'[j].state = extract_state
               \/ <<ajob[j].state, ajob'[j].state>> \in StateEdges
     /\ extract_state' # extract_state
          => \/ <<extract_state, extract_state'>> \in StateEdges
             \/ /\ extract_state = "pending"
                /\ extract_state' \in {"done", "error"}
                /\ \E j \in Jobs : /\ ajob[j].state \in {"processing", "done"}
                                   /\ ajob[j].pc \in {"except", "returned"}
     /\ response'.tag = "queued"
          => /\ extract_state \in {"no_extract", "error", "done"}
             /\ cv_extract_mode = "manual_send"
             /\ message_main_attachment_id # "none"
             /\ \A j \in Jobs : ~LiveExtraction(j)
             /\ extract_state' = "pending"
     /\ Cardinality({j \in Jobs : LiveExtraction(j)}) <= 1
     /\ \A j \in Jobs :
          ajob[j].state = "processing"
            => /\ extract_state = "pending"
               /\ \A k \in Jobs \ {j} : ~LiveExtraction(k)]_vars

\* a second request, in manual mode and with a main attachment, was refused
\* while the job of the first holds the state processing
C19_Witness ==
  /\ response.tag = "err_not_ready"
  /\ cv_extract_mode = "manual_send"
  /\ message_main_attachment_id = "cv"
  /\ extract_state = "pending"
  /\ \E j \in Jobs : ajob[j].state = "processing" /\ ajob[j].pc = "parse"

\* C20: when a single-applicant extraction job fails (the service raises,
\* the response cannot be parsed, the credential is missing, a write fails)
\* its except clause leaves the applicant committed in state error with the
\* error text in its status and no simple field written; the job then sends
\* exactly one notification, of type warning, carrying the error text, and
\* writes nothing more.  A job that succeeds sends exactly one notification,
\* of type success, and its commit leaves the applicant in state done.
C20_JobOutcome ==
  [][\A j \in Jobs :
       /\ (ajob[j].pc = "except" /\ ajob'[j].pc # "except")
            => /\ ajob[j].e # NoExc
               /\ extract_state' = "error"
               /\ extract_status' = ErrorStatus(ajob[j].e)
               /\ simple_fields' = simple_fields
               /\ ~ajob'[j].success
               /\ ajob'[j].error_message = ajob[j].e
               /\ ajob'[j].sent = <<>>
       /\ (ajob[j].pc = "notify" /\ ajob'[j].pc # "notify")
            => /\ Len(ajob'[j].sent) = 1
               /\ ajob'[j].sent[1].type =
                     IF ajob[j].success THEN "success" ELSE "warning"
               /\ ajob'[j].sent[1].e = ajob[j].error_message
               /\ ajob[j].success <=> ajob[j].error_message = NoExc
       /\ (ajob[j].pc = "returned" /\ ajob'[j].pc # "returned")
            => /\ Len(ajob[j].sent) = 1
               /\ ajob[j].success
                    => /\ ajob[j].sent[1].type = "success"
                       /\ extract_state' = "done"
               /\ ~ajob[j].success
                    => /\ ajob[j].sent[1].type = "warning"
                       /\ UNCHANGED <<extract_state, extract_status,
                                      simple_fields>>]_vars

\* the job had written the simple fields in its environment when the write
\* of the state done failed: the applicant is in state error, its simple
\* fields are as before, and one warning was sent
C20_Witness ==
  \E j \in Jobs :
    /\ ajob[j].pc = "returned"
    /\ ~ajob[j].success
    /\ ajob[j].error_message = Exc("write_failed", <<>>)
    /\ Len(ajob[j].sent) = 1
    /\ ajob[j].sent[1].type = "warning"
    /\ extract_state = "error"
    /\ extract_status = ErrorStatus(Exc("write_failed", <<>>))
    /\ simple_fields = <<>>

\* C21: when the skills fail after the simple fields were written, the
\* operation does not fail: the failing item leaves the simple fields as
\* they were written and hands the caller the message of the partial
\* success; the caller then writes state done with that message, still
\* keeps the simple fields, and the bulk run counts the document as
\* processed.
C21_SkillFailureIsPartialSuccess ==
  [][ /\ (sk.pc = "skills" /\ sk'.last.item.skill = NotAString) =>
           /\ sk'.pc = "return"
           /\ sk'.skill_status_message = PartialSuccess
           /\ simple_fields' = simple_fields
      /\ (sk.pc = "return" /\ sk.skill_status_message = PartialSuccess
             /\ sk'.pc = "idle") =>
           /\ extract_state' = "done"
           /\ extract_status' = PartialSuccess
           /\ simple_fields' = simple_fields
           /\ (sk.caller = "bulk" => sk'.doc_processed) ]_vars

\* a bulk document whose skills failed: the applicant has the simple
\* fields, state done and the message of the partial success
C21_Witness ==
  /\ sk.pc = "idle"
  /\ sk.doc_processed
  /\ extract_state = "done"
  /\ extract_status = PartialSuccess
  /\ simple_fields = <<"{", "m", "}">>

\* C22: an item that fails aborts the skill step as a unit: the types,
\* levels, skills and links are again those the step found when it began,
\* so nothing the earlier items of the step created or changed persists,
\* while the simple fields written before the step are kept; what the
\* caller then commits is that state.
C22_SkillStepIsAUnit ==
  [][ /\ (sk.pc = "skills" /\ sk'.last.item.skill = NotAString) =>
           /\ hr_skill_type' = sk.savepoint.types
           /\ hr_skill_level' = sk.savepoint.levels
           /\ hr_skill' = sk.savepoint.skills
           /\ hr_applicant_skill' = sk.savepoint.links
           /\ simple_fields' = simple_fields
      /\ (sk.pc = "return" /\ sk.skill_status_message = PartialSuccess
             /\ sk'.pc = "idle") =>
           /\ CurrentTables = sk.savepoint
           /\ UNCHANGED <<hr_skill_type, hr_skill_level, hr_skill,
                          hr_applicant_skill, simple_fields>> ]_vars

\* the second item of a list failed after the first had created a type and
\* registered a level under it: no type and no link is left, the simple
\* fields are those written in step 1
C22_Witness ==
  /\ sk.pc = "return"
  /\ sk.skill_status_message = PartialSuccess
  /\ sk.n = 2
  /\ sk.registrations # <<>>
  /\ hr_skill_type = {}
  /\ hr_applicant_skill = <<>>
  /\ simple_fields = <<"{", "m", "}">>

\* the record of table S with the id
Rec(S, id) == CHOOSE r \in S : r.id = id

\* the step is an iteration of the loop of _process_skills that resolved a
\* type, a level and a skill
ItemProcessed ==
  /\ sk.pc = "skills"
  /\ sk'.n = sk.n + 1
  /\ sk'.last.skill_id # 0

\* the item just processed had a label of the shape '<name> (<integer>%)'
ShapedLabelProcessed ==
  /\ ItemProcessed
  /\ level_match(sk'.last.item.level).found

\* C23: an item whose level label has the shape '<name> (<integer>%)' gets
\* a level whose name is <name>, up to letter case, and whose progress is
\* <integer>.
C23_ShapedLabelGivesNameAndProgress ==
  [][ ShapedLabelProcessed =>
        LET match == level_match(sk'.last.item.level)
            level == Rec(hr_skill_level', sk'.last.level_id)
        IN /\ ilike(match.name, level.name)
           /\ level.level_progress = match.progress ]_vars

\* the item just processed had no level label, or a label that has not the
\* shape '<name> (<integer>%)' and is the name of no level
UnresolvedLabelProcessed ==
  /\ ItemProcessed
  /\ \/ sk'.last.item.level = <<>>
     \/ /\ ~level_match(sk'.last.item.level).found
        /\ \A l \in hr_skill_level : ~ilike(sk'.last.item.level, l.name)

\* level is what the four steps give in the table of levels S
IsDefaultOf(level, S) ==
  LET beginner15 == {l \in S : /\ ilike(<<"Beginner">>, l.name)
                               /\ l.level_progress = 15}
      beginner == {l \in S : ilike(<<"Beginner">>, l.name)}
      positive == {l \in S : l.level_progress > 0}
  IN IF beginner15 # {} THEN level \in beginner15
     ELSE IF beginner # {} THEN level \in beginner
     ELSE IF positive # {}
     THEN /\ level \in positive
          /\ \A o \in positive : level.level_progress <= o.level_progress
     ELSE /\ level \notin S
          /\ level.name = <<"Beginner">>
          /\ level.level_progress = 15

\* C24: an item without a level label, or with a label that has not the
\* shape and names no level, gets the default level: the first such item of
\* a list gets the level the four steps give (Beginner with progress 15,
\* else a Beginner, else the lowest positive progress, else a new
\* Beginner/15), every later one the same level, and the four steps run at
\* most once per list.
C24_DefaultLevelChain ==
  [][ /\ UnresolvedLabelProcessed =>
           LET level == Rec(hr_skill_level', sk'.last.level_id)
           IN /\ sk'.default_level = sk'.last.level_id
              /\ IF sk.default_level = 0
                 THEN IsDefaultOf(level, hr_skill_level)
                 ELSE sk'.last.level_id = sk.default_level
      /\ sk'.default_calls <= 1 ]_vars

\* the second item of a list got the default its first item had found as
\* the level of the lowest positive progress
C24_Witness ==
  /\ sk.pc = "skills"
  /\ sk.n = 2
  /\ sk.default_calls = 1
  /\ sk.last.how = "default_loaded"
  /\ sk.last.item.level = <<"Ninja">>
  /\ Rec(hr_skill_level, sk.default_level).level_progress = 50
  /\ Rec(hr_skill_level, sk.default_level).name = Adv80

\* the pairs of a sequence are pairwise different
NoRepeats(q) == \A i, j \in 1..Len(q) : q[i] = q[j] => i = j

OneLinkPerSkill(links) ==
  \A i, j \in 1..Len(links) :
    (/\ links[i].applicant_id = links[j].applicant_id
     /\ links[i].skill_id = links[j].skill_id) => i = j

\* C26: after every step of every extraction and re-extraction there is at
\* most one link per applicant and skill, and an item creates a link
\* exactly when the applicant has no link to the skill it resolved.
C26_OneLinkPerCandidateSkill ==
  [][ /\ OneLinkPerSkill(hr_applicant_skill')
      /\ ItemProcessed =>
           (sk'.last.linked <=>
              ~\E i \in 1..Len(hr_applicant_skill) :
                 /\ hr_applicant_skill[i].applicant_id = sk.applicant_id
                 /\ hr_applicant_skill[i].skill_id = sk'.last.skill_id) ]_vars

\* a re-extraction for the applicant names, in lower case, the skill the
\* first extraction created and linked: no second link is created
C26_Witness ==
  /\ sk.pc = "skills"
  /\ sk.passes = 1
  /\ sk.n = 1
  /\ sk.applicant_id = 1
  /\ sk.last.item.skill = "python"
  /\ ~sk.last.linked
  /\ Rec(hr_skill, sk.last.skill_id).name = "Python"
  /\ Len(hr_applicant_skill) = 1
  /\ hr_applicant_skill[1].applicant_id = 1
  /\ hr_applicant_skill[1].skill_id = sk.last.skill_id

\* C27: after an item naming a type and a skill was processed, the skill
\* belongs to the type the item resolved (so the type of a skill named by
\* several items is that of the last one).
C27_LastClassificationWins ==
  [][ ItemProcessed =>
        Rec(hr_skill', sk'.last.skill_id).skill_type_id = sk'.last.type_id
    ]_vars

\* the statements a requirement extraction created (ids of job j)
CreatedBy(j, statements) ==
  {i \in 1..Len(statements) : statements[i].id \div 10 = j}

\* the commit of an extraction that succeeded
SuccessfulExtraction(j) ==
  /\ jj[j].pc = "returned"
  /\ jj[j].success
  /\ jj'[j].pc = "done"

\* C28: when a requirement extraction that succeeded is committed, the
\* posting's statements are the extracted list and nothing else: none of
\* the statements that existed before is left, there is one statement per
\* extracted requirement, in the order returned, with strictly increasing
\* sequence numbers, the state is done and the parsed file is the processed
\* attachment.
C28_StatementsAreTheExtractedList ==
  [][\A j \in JdJobs :
       SuccessfulExtraction(j) =>
         LET data == jj[j].data
             old == {hr_job_requirement[i].id :
                       i \in 1..Len(hr_job_requirement)}
             new == hr_job_requirement'
         IN /\ Len(new) = Len(data)
            /\ \A i \in 1..Len(new) :
                 /\ new[i].id \notin old
                 /\ new[i].name = data[i].name
                 /\ new[i].weight = data[i].weight
            /\ \A i \in 1..Len(new) - 1 :
                 new[i].sequence < new[i + 1].sequence
            /\ jd_extract_state' = "done"
            /\ jd_processed_attachment_ids' = {jj[j].attachment_id}]_vars

\* a second extraction has made two statements and is about to commit them
\* over the statements the first extraction left
C28_Witness ==
  /\ jj[1].pc = "done" /\ jj[1].success
  /\ CreatedBy(1, hr_job_requirement) # {}
  /\ jj[2].pc = "returned" /\ jj[2].success
  /\ Len(jj[2].data) = 2
  /\ CreatedBy(2, jj[2].view.statements) = {1, 2}
  /\ CreatedBy(1, jj[2].view.statements) = {}
  /\ jj[2].view.state = "done"

\* the service answered an extraction with no requirement
EmptyAnswer(j) == jj[j].e = "no_requirements"

\* C29: an answer of zero requirements fails the extraction: the writer
\* raises, the except clause commits the state error without touching the
\* statements, the finally clause sends the failure notification, and no
\* statement of that extraction ever exists.
C29_NoRequirementsFailsTheExtraction ==
  [][\A j \in JdJobs :
       /\ (jj[j].pc = "process" /\ jj[j].data = <<>> /\ jj'[j] # jj[j])
            => jj'[j].pc = "except" /\ EmptyAnswer(j)'
       /\ (EmptyAnswer(j) /\ jj[j].pc = "except" /\ jj'[j].pc # "except")
            => /\ jd_extract_state' = "error"
               /\ hr_job_requirement' = hr_job_requirement
               /\ ~jj'[j].success
       /\ (EmptyAnswer(j) /\ jj[j].pc = "finally" /\ jj'[j].pc # "finally")
            => jj'[j].sent = <<[title |-> "Requirement Generation Failed",
                                type |-> "warning"]>>
       /\ EmptyAnswer(j)' =>
            /\ CreatedBy(j, hr_job_requirement') = {}
            /\ CreatedBy(j, jj'[j].view.statements) = {}]_vars

\* an extraction answered with no requirement has ended: error state, the
\* statement written by hand still there, the warning sent
C29_Witness ==
  \E j \in JdJobs :
    /\ EmptyAnswer(j)
    /\ jj[j].pc = "done"
    /\ jd_extract_state = "error"
    /\ hr_job_requirement = <<ManualRequirement>>
    /\ Len(jj[j].sent) = 1

\* no two tags whose names differ only in letter case
NoCaseTwins(tags) ==
  \A a, b \in tags : Lower(a.name) = Lower(b.name) => a = b

\* C30: tags are resolved by name up to letter case: a requirement whose
\* tag name equals an existing tag's name up to letter case is linked to
\* such an existing tag, and at no time do two tags exist whose names
\* differ only in letter case.
C30_TagsResolvedUpToLetterCase ==
  [][/\ NoCaseTwins(hr_job_requirement_tag')
     /\ \A j \in JdJobs :
          (jj[j].pc = "process" /\ jj'[j].success) =>
            \A i \in 1..Len(jj[j].data) :
              LET same == {t \in jj[j].view.tags :
                             Lower(t.name) = Lower(jj[j].data[i].tag_name)}
              IN same # {} =>
                   jj'[j].view.statements[i].tag_ids \subseteq
                     {t.id : t \in same}]_vars

\* the statements read in another order
Reordered(stmts, p) == [i \in 1..Len(stmts) |-> stmts[p[i]]]

\* the orders in which n statements can be read
Orders(n) == {p \in [1..n -> 1..n] : \A i, k \in 1..n : p[i] = p[k] => i = k}

\* sum of f[i] over the indices of I, in no particular order
RECURSIVE SumOf(_, _)
SumOf(f, I) ==
  IF I = {} THEN 0
  ELSE LET i == CHOOSE k \in I : TRUE IN f[i] + SumOf(f, I \ {i})

\* C31: the score of a match statement is fixed by its fit category:
\* not_fit 0, poor_fit 25, fit 50, good_fit 80, excellent_fit 100; it is
\* so in every state, also after the category of a statement was changed.
C31_ScoreFollowsCategory ==
  \A i \in 1..Len(hr_applicant_match_statement) :
    LET st == hr_applicant_match_statement[i]
    IN /\ st.match_fit \in MatchFits
       /\ st.match_fit = "not_fit" => st.match_score = 0
       /\ st.match_fit = "poor_fit" => st.match_score = 25
       /\ st.match_fit = "fit" => st.match_score = 50
       /\ st.match_fit = "good_fit" => st.match_score = 80
       /\ st.match_fit = "excellent_fit" => st.match_score = 100

\* the fit of the second of two statements was just changed to good_fit
C31_Witness ==
  /\ response = Resp("fit_written", 2)
  /\ Len(hr_applicant_match_statement) = 2
  /\ hr_applicant_match_statement[2].match_fit = "good_fit"
  /\ hr_applicant_match_statement[2].match_score = 80

LinkBefore ==
  {i \in 1..Len(hr_applicant_skill) :
     /\ hr_applicant_skill[i].applicant_id = sk.applicant_id
     /\ hr_applicant_skill[i].skill_id = sk'.last.skill_id}

\* C33: first link wins: an item that resolves a skill the applicant is
\* already linked to changes no link: the level and the type of the link
\* stay as first written, whatever the item carries.
C33_FirstLinkWins ==
  [][ (ItemProcessed /\ LinkBefore # {}) =>
        hr_applicant_skill' = hr_applicant_skill ]_vars

\* an item resolved a skill the applicant was linked to, with another
\* level and another type than the link holds: the link is as it was
C33_Witness ==
  /\ sk.pc = "skills"
  /\ sk.last.skill_id # 0
  /\ ~sk.last.linked
  /\ \E i \in 1..Len(hr_applicant_skill) :
       /\ hr_applicant_skill[i].applicant_id = sk.applicant_id
       /\ hr_applicant_skill[i].skill_id = sk.last.skill_id
       /\ hr_applicant_skill[i].skill_level_id # sk.last.level_id
       /\ hr_applicant_skill[i].skill_type_id # sk.last.type_id

\* C38: every link is type-consistent: the skill type stored on a link is
\* the skill type of the linked skill, in every state.
C38_LinksAreTypeConsistent ==
  \A i \in 1..Len(hr_applicant_skill) :
    hr_applicant_skill[i].skill_type_id =
      Rec(hr_skill, hr_applicant_skill[i].skill_id).skill_type_id

\* the number of lexemes b among t[i..j]
CountOf(t, b, i, j) == Cardinality({k \in i..j : t[k] = b})

\* the balanced brace spans of a text that lie in no other: <<i, j>> with
\* an opening brace at i, its closing brace at j and as many braces
\* opened as closed before i
TopLevelSpans(t) ==
  {<<i, j>> \in (1..Len(t)) \X (1..Len(t)) :
     /\ i < j
     /\ t[i] = "{"
     /\ t[j] = "}"
     /\ CountOf(t, "{", 1, i - 1) = CountOf(t, "}", 1, i - 1)
     /\ CountOf(t, "{", i, j) = CountOf(t, "}", i, j)
     /\ \A k \in i..(j - 1) :
          CountOf(t, "{", i, k) > CountOf(t, "}", i, k)}

\* prose holding two separate objects and nothing else: words and blanks
\* around two top-level spans that are JSON documents
TwoObjectsInProse(t) ==
  /\ Cardinality(TopLevelSpans(t)) = 2
  /\ \A sp \in TopLevelSpans(t) :
       json_loads(SubSeq(t, sp[1], sp[2])) # JSONDecodeError
  /\ \A k \in 1..Len(t) :
       \/ t[k] \in {"w", " "}
       \/ \E sp \in TopLevelSpans(t) : sp[1] <= k /\ k <= sp[2]
  /\ \E k \in 1..Len(t) : t[k] = "w"

\* the first balanced top-level brace span of a text that has one
FirstSpan(t) ==
  LET sp == CHOOSE a \in TopLevelSpans(t) :
              \A b \in TopLevelSpans(t) : a[1] <= b[1]
  IN SubSeq(t, sp[1], sp[2])

\* C34: a response made of prose that holds two separate brace-delimited
\* objects normalizes to the first object (the first balanced top-level
\* brace span is parsed).
C34_FirstOfTwoObjects ==
  (parsed # NotParsed /\ TwoObjectsInProse(response_text))
    => parsed = json_loads(FirstSpan(response_text))

\* C35: in the Gemini orchestrator the created count plus the failed count
\* of the final notification of a run is the number of documents the run
\* was given to process, whatever the outcomes of the documents.
C35_GeminiCountsAddUp ==
  \A r \in Runs :
    (addon = "gemini" /\ th[r].sent # <<>>)
      => LET n == th[r].sent[Len(th[r].sent)]
         IN n.succeeded + n.failed = Len(qargs[r])

\* C36: at most one bulk run of the job posting is pending or executing at
\* any time, whatever the order of start requests, delete-attachments
\* actions and steps of the background run.
C36_OneRunAtATime ==
  \A r, q \in Runs : (Executing(r) /\ Executing(q)) => r = q

\* C37: in the OpenAI run, when the handling of a document whose profile
\* was committed (the extraction transaction raised nothing) is over, the
\* document is in the already-processed set and processed_cv_count has
\* grown by one.
C37_CommittedProfileIsCounted ==
  [][\A r \in Runs :
       (/\ addon = "openai"
        /\ th[r].pc = "stats_locked"
        /\ th[r].error_msg = ""
        /\ th'[r].pc # "stats_locked")
       => /\ Att(r) \in processed_cv_attachment_ids'
          /\ processed_cv_count' = processed_cv_count + 1]_vars

\* the step in which extraction job j ends in error: its except clause
\* commits the error state, or the run that found its file deleted is
\* committed
EndsInError(j) ==
  \/ jj[j].pc = "except" /\ jj'[j].pc = "finally"
  \/ jj[j].pc = "returned" /\ jj[j].view.state = "error" /\ jj'[j].pc = "done"

\* C39: a requirement extraction that ends in error has changed no
\* requirement statement of the job posting: its request unlinked none and
\* the step that ends it leaves the statements as they are, also when the
\* file had been parsed with success before.
C39_ErrorLeavesStatements ==
  [][\A j \in JdJobs :
       EndsInError(j) => /\ jj[j].unlinked = <<>>
                         /\ hr_job_requirement' = hr_job_requirement]_vars

\* the step in which the run of extraction job j ends: the job runner
\* commits the method that returned or rolls back the one that raised
JdRunEnds(j) ==
  /\ jj[j].pc \in {"returned", "raised"}
  /\ jj'[j].pc \in {"done", "failed"}

\* an extraction job is waiting in the queue or running
JdJobLive == \E j \in JdJobs : jj[j].q \in {"pending", "started"}

\* C40: when the run of a requirement-extraction job ends the posting's
\* jd_extract_state is done or error and jd_queue_job_uuid is cleared, so
\* jd_processing_in_progress is false; if the state is done the processed
\* files are exactly the parsed file and the posting has a statement that
\* this job created; and no extraction request is accepted while a job is
\* pending or running.
C40_RunEndsAndNoOverlap ==
  [][/\ \A j \in JdJobs :
          JdRunEnds(j) =>
            /\ jd_extract_state' \in {"done", "error"}
            /\ jd_queue_job_uuid' = 0
            /\ ~jd_processing_in_progress'
            /\ jd_extract_state' = "done" =>
                 /\ jd_processed_attachment_ids' = {jj[j].attachment_id}
                 /\ CreatedBy(j, hr_job_requirement') # {}
     /\ JdJobLive => nextJd' = nextJd]_vars

====
